---- MODULE Spec2Model ----
(***************************************************************************)
(* Lease-document extraction: the retrying extraction orchestrator         *)
(* (backend/app/services/ai_extractor.py) and the four-metric quality      *)
(* scorer (backend/app/services/quality_scorer.py) over the record schema  *)
(* of backend/app/schemas.py, and the upload endpoints that run them       *)
(* (backend/app/api/upload.py).                                            *)
(*                                                                         *)
(* Arithmetic is exact: scores are rationals <<n, d>> in lowest terms      *)
(* where the code computes binary floats; Decimal amounts are integers     *)
(* (number_of_rooms in tenths of a room).  Strings are sequences of        *)
(* one-character strings, so that strip(), lower() and "in" are computed;   *)
(* "~u" and "~U" stand for the letter u with diaeresis.                    *)
(***************************************************************************)
EXTENDS Integers, Sequences, FiniteSets, TLC

VARIABLES
    \* ---- AIExtractor: one entry per in-flight extract() call
    xpc,          \* where the coroutine is suspended or how it ended
    attempt,      \* the loop variable of _extract_with_openai
    invocations,  \* number of chat.completions.create calls made so far
    delays,       \* the asyncio.sleep delays observed so far, in order
    responses,    \* what the collaborator answered so far, in order
    outcome,      \* the returned result or the raised exception
    candidate,    \* the JSON object the last completion parsed to, if any
    \* ---- QualityScorer: one shared instance, one entry per caller
    issues,       \* self.issues, the instance attribute
    spc,          \* the statement each assess_quality call is at
    extraction,   \* the argument of each assess_quality call
    scores,       \* the local sub-scores of each call
    errlist,      \* the validation_errors list built for the report
    report,       \* what each call returned or raised
    today,        \* what date.today() gave each call (0: not read yet)
    \* ---- upload API: the request one endpoint call is handling
    upc,          \* where the endpoint call is: idle, batch (in its loop), responded
    files,        \* the uploaded files of the request, in order
    idx,          \* the loop index of upload_multiple_documents
    results,      \* the results list of upload_multiple_documents
    errs,         \* the errors list of upload_multiple_documents
    response,     \* the HTTP response of the endpoint call
    calls         \* the pipeline services called so far, with the file's index

xvars == <<xpc, attempt, invocations, delays, responses, outcome, candidate>>
svars == <<issues, spc, extraction, scores, errlist, report, today>>
uvars == <<upc, files, idx, results, errs, response, calls>>
vars == <<xpc, attempt, invocations, delays, responses, outcome, candidate,
          issues, spc, extraction, scores, errlist, report, today,
          upc, files, idx, results, errs, response, calls>>

(***************************************************************************)
(* Optional values, rationals, strings                                     *)
(***************************************************************************)
None == <<>>

Some(v) == <<v>>

IsNone(o) == o = <<>>

Val(o) == o[1]

Abs(i) == IF i < 0 THEN -i ELSE i

RECURSIVE Gcd(_, _)
Gcd(a, b) == IF b = 0 THEN a ELSE Gcd(b, a % b)

\* the rational n/d (d # 0) in lowest terms with a positive denominator
Rat(n, d) ==
    LET g == Gcd(Abs(n), Abs(d))
        s == IF d < 0 THEN -1 ELSE 1
    IN  <<(s * n) \div g, (s * d) \div g>>

RatInt(i) == <<i, 1>>

RatAdd(p, q) == Rat(p[1] * q[2] + q[1] * p[2], p[2] * q[2])

RatMul(p, q) == Rat(p[1] * q[1], p[2] * q[2])

RatDiv(p, q) == Rat(p[1] * q[2], p[2] * q[1])

RatLe(p, q) == p[1] * q[2] <= q[1] * p[2]

RatLt(p, q) == p[1] * q[2] < q[1] * p[2]

RECURSIVE RatSum(_)
RatSum(s) == IF s = <<>> THEN RatInt(0) ELSE RatAdd(Head(s), RatSum(Tail(s)))

Whitespace == {" ", "\t", "\n"}

RECURSIVE LStrip(_)
LStrip(s) == IF s # <<>> /\ Head(s) \in Whitespace THEN LStrip(Tail(s)) ELSE s

RECURSIVE RStrip(_)
RStrip(s) ==
    IF s # <<>> /\ s[Len(s)] \in Whitespace THEN RStrip(SubSeq(s, 1, Len(s) - 1)) ELSE s

\* str.strip()
Strip(s) == RStrip(LStrip(s))

LowerChar(c) ==
    CASE c = "M" -> "m"
      [] c = "B" -> "b"
      [] c = "I" -> "i"
      [] c = "C" -> "c"
      [] c = "H" -> "h"
      [] c = "N" -> "n"
      [] c = "U" -> "u"
      [] c = "~U" -> "~u"
      [] OTHER -> c

\* str.lower()
Lower(s) == [i \in 1..Len(s) |-> LowerChar(s[i])]

\* sub in s
Contains(sub, s) ==
    \E i \in 1..(Len(s) - Len(sub) + 1) : SubSeq(s, i, i + Len(sub) - 1) = sub

(***************************************************************************)
(* AIExtractor                                                             *)
(***************************************************************************)
MAX_RETRIES == 3

BASE_RETRY_DELAY == 1

\* the extract() calls in flight on the one ai_extractor instance
ExtractCalls == {"x1", "x2"}

\* what one chat.completions.create call can come back with:
\*   api_error       the await raises OpenAIError
\*   bad_json        the content is not parseable JSON (json.loads raises)
\*   not_object      the content is absent, or JSON that is no object
\*                   (json.loads or the metadata stamping raises TypeError)
\*   schema_invalid  a JSON object LeaseExtraction(**data) rejects
\*   valid           a JSON object LeaseExtraction(**data) accepts
ResponseKinds == {"api_error", "bad_json", "not_object", "schema_invalid", "valid"}

RECURSIVE Pow2(_)
Pow2(n) == IF n = 0 THEN 1 ELSE 2 * Pow2(n - 1)

\* the exception the try body of one attempt raises, "none" when it returns
BodyRaises(kind) ==
    CASE kind = "api_error" -> [type |-> "OpenAIError", cause |-> "none"]
      [] kind = "bad_json" -> [type |-> "JSONDecodeError", cause |-> "none"]
      [] kind = "not_object" -> [type |-> "TypeError", cause |-> "none"]
      [] kind = "schema_invalid" -> [type |-> "ExtractionError", cause |-> "ValidationError"]
      [] OTHER -> [type |-> "none", cause |-> "none"]

\* a clause list whose JSON clause also catches ExtractionError
ExceptClauseCatchingValidation(exc) ==
    CASE exc.type = "OpenAIError" -> "OpenAIError"
      [] exc.type \in {"JSONDecodeError", "ExtractionError"} -> "JSONDecodeError"
      [] OTHER -> "Exception"

\* the except clause that handles an exception of the try body
ExceptClause(exc) ==
    CASE exc.type = "OpenAIError" -> "OpenAIError"
      [] exc.type = "JSONDecodeError" -> "JSONDecodeError"
      [] OTHER -> "Exception"

\* a retry test that still passes on the last attempt
RetriesOnLastAttempt(clause, att) ==
    /\ clause \in {"OpenAIError", "JSONDecodeError"}
    /\ att < MAX_RETRIES

\* whether the clause retries on this attempt
Retries(clause, att) ==
    /\ clause \in {"OpenAIError", "JSONDecodeError"}
    /\ att < MAX_RETRIES - 1

\* what the clause raises when it does not retry
ClauseRaises(clause, exc) ==
    IF clause = "JSONDecodeError"
    THEN [type |-> "ExtractionError", cause |-> exc.type]
    ELSE exc

\* a backoff whose exponent is the number of the next attempt
ExponentialBackoffFromNext(att) == BASE_RETRY_DELAY * Pow2(att + 1)

\* _exponential_backoff: the delay slept after attempt att failed
ExponentialBackoff(att) == BASE_RETRY_DELAY * Pow2(att)

NoOutcome == [status |-> "none", exc |-> [type |-> "none", cause |-> "none"]]

XInit ==
    /\ xpc = [c \in ExtractCalls |-> "idle"]
    /\ attempt = [c \in ExtractCalls |-> 0]
    /\ invocations = [c \in ExtractCalls |-> 0]
    /\ delays = [c \in ExtractCalls |-> <<>>]
    /\ responses = [c \in ExtractCalls |-> <<>>]
    /\ outcome = [c \in ExtractCalls |-> NoOutcome]
    /\ candidate = [c \in ExtractCalls |-> None]

\* a backoff that sleeps on the event loop's thread (time.sleep)
SuspendsOnlyInCompletion(point) == point = "awaiting"

\* whether a call waiting at the point has given the event loop back: both
\* waits are awaits, of the client's coroutine and of asyncio.sleep
Suspends(point) == point \in {"awaiting", "backoff"}

\* the event loop can run call c: no other call holds the loop's thread
Resumable(c) ==
    \A d \in ExtractCalls \ {c} :
        xpc[d] \in {"awaiting", "backoff"} => Suspends(xpc[d])

\* extract(): enters the loop and awaits the first completion
Extract(c) ==
    /\ xpc[c] = "idle"
    /\ Resumable(c)
    /\ 0 < MAX_RETRIES
    /\ attempt' = [attempt EXCEPT ![c] = 0]
    /\ invocations' = [invocations EXCEPT ![c] = @ + 1]
    /\ xpc' = [xpc EXCEPT ![c] = "awaiting"]
    /\ UNCHANGED <<delays, responses, outcome, candidate>>
    /\ UNCHANGED svars
    /\ UNCHANGED uvars

\* asyncio.sleep(delay) completes; the loop moves to the next attempt and
\* awaits the next completion
\* (a loop that runs out of attempts falls off the end and returns None)
BackoffElapses(c) ==
    /\ xpc[c] = "backoff"
    /\ Resumable(c)
    /\ IF attempt[c] + 1 < MAX_RETRIES
       THEN /\ attempt' = [attempt EXCEPT ![c] = @ + 1]
            /\ invocations' = [invocations EXCEPT ![c] = @ + 1]
            /\ xpc' = [xpc EXCEPT ![c] = "awaiting"]
            /\ UNCHANGED outcome
       ELSE /\ xpc' = [xpc EXCEPT ![c] = "returned"]
            /\ outcome' = [outcome EXCEPT ![c] =
                             [status |-> "result_none", exc |-> NoOutcome.exc]]
            /\ UNCHANGED <<attempt, invocations>>
    /\ UNCHANGED <<delays, responses, candidate>>
    /\ UNCHANGED svars
    /\ UNCHANGED uvars

(***************************************************************************)
(* Record schema (schemas.py) as the scorer reads it                       *)
(***************************************************************************)
\* QualityScorer.REQUIRED_FIELDS, in order
REQUIRED_FIELDS ==
    <<"tenants", "address.street", "address.house_number", "address.zip_code",
      "address.city", "warm_rent", "cold_rent", "contract_start_date",
      "rent_increase_type">>

\* QualityScorer.BONUS_FIELDS, in order
BONUS_FIELDS ==
    <<"landlord_name", "landlord_address", "deposit_amount", "notice_period",
      "special_clauses", "utilities_included", "square_meters",
      "number_of_rooms", "parking_rent", "utilities_cost">>

\* field.split(".")
Split(field) ==
    CASE field = "address.street" -> <<"address", "street">>
      [] field = "address.house_number" -> <<"address", "house_number">>
      [] field = "address.zip_code" -> <<"address", "zip_code">>
      [] field = "address.city" -> <<"address", "city">>
      [] OTHER -> <<field>>

\* "." in field
HasDot(field) == Len(Split(field)) > 1

\* the Optional[...] fields of LeaseExtraction: None or Some(value)
OptionalFields ==
    {"name", "surname", "utilities_cost", "parking_rent", "rent_increase_schedule",
     "contract_end_date", "landlord_name", "landlord_address", "deposit_amount",
     "notice_period", "special_clauses", "utilities_included", "square_meters",
     "number_of_rooms"}

\* the Python type of a field's value once validated ("Literal": one of the
\* five rent-increase strings, held whole and not as characters)
FieldType(field) ==
    CASE field \in {"address.street", "address.house_number", "address.zip_code",
                    "address.city", "landlord_name",
                    "landlord_address", "notice_period", "name", "surname"} -> "str"
      [] field = "rent_increase_type" -> "Literal"
      [] field \in {"tenants", "rent_increase_schedule", "special_clauses",
                    "utilities_included"} -> "list"
      [] field \in {"warm_rent", "cold_rent", "utilities_cost", "parking_rent",
                    "deposit_amount", "square_meters", "number_of_rooms"} -> "Decimal"
      [] OTHER -> "other"

\* getattr along the dotted path: None, or Some(value)
GetAttrPath(ex, field) ==
    LET parts == Split(field)
    IN  IF Len(parts) = 2
        THEN Some(ex[parts[1]][parts[2]])
        ELSE IF parts[1] \in OptionalFields THEN ex[parts[1]] ELSE Some(ex[parts[1]])

\* Python truthiness of an Optional[Decimal]: neither None nor zero
Truthy(o) == ~IsNone(o) /\ Val(o) # 0

\* Python truthiness of an Optional[str] or Optional[list]
NonEmpty(o) == ~IsNone(o) /\ Len(Val(o)) > 0

DigitVal(c) ==
    CASE c = "0" -> 0 [] c = "1" -> 1 [] c = "2" -> 2 [] c = "3" -> 3 [] c = "4" -> 4
      [] c = "5" -> 5 [] c = "6" -> 6 [] c = "7" -> 7 [] c = "8" -> 8 [] c = "9" -> 9

\* int(zip_code) of a string of digits
RECURSIVE ParseInt(_)
ParseInt(s) ==
    IF s = <<>> THEN 0 ELSE 10 * ParseInt(SubSeq(s, 1, Len(s) - 1)) + DigitVal(s[Len(s)])

\* LeaseExtraction.model_post_init: name and surname default to the first tenant
ModelPostInit(ex) ==
    IF Len(ex.tenants) > 0
    THEN [ex EXCEPT !.name = IF NonEmpty(@) THEN @ ELSE Some(ex.tenants[1].first_name),
                    !.surname = IF NonEmpty(@) THEN @ ELSE Some(ex.tenants[1].last_name)]
    ELSE ex

(***************************************************************************)
(* QualityScorer: the sub-scores.  Each returns [score, found]: the score  *)
(* and the issues it appends to self.issues, in order.                     *)
(***************************************************************************)
QualityIssue(severity, category, field, message) ==
    [severity |-> severity, category |-> category, field |-> field, message |-> message]

\* a message: its fixed text and the field it names (interpolated values
\* are left out)
Msg(text, field) == <<text, field>>

\* a lookup under the dotted field name itself
FieldKeyWholeField(field) == field

\* the confidence-map key a required field is looked up under
FieldKey(field) == IF HasDot(field) THEN Split(field)[1] ELSE field

\* whether the low-confidence warning is raised for a looked-up field
FlagsLowConfidence(score, field_key, field) ==
    RatLt(score, Rat(6, 10)) /\ field_key = field

RECURSIVE ConfidenceIssues(_, _)
ConfidenceIssues(conf, fields) ==
    IF fields = <<>> THEN <<>>
    ELSE LET field == Head(fields)
             field_key == FieldKey(field)
             here == IF /\ field_key \in DOMAIN conf
                        /\ FlagsLowConfidence(conf[field_key], field_key, field)
                     THEN <<QualityIssue("warning", "confidence", field_key,
                                         Msg("Low confidence score", field_key))>>
                     ELSE <<>>
         IN  here \o ConfidenceIssues(conf, Tail(fields))

\* an average over the required fields that have an entry only
CalculateConfidenceScoreSkippingMissing(ex) ==
    LET conf == ex.confidence_scores
        present == SelectSeq(REQUIRED_FIELDS, LAMBDA f : FieldKey(f) \in DOMAIN conf)
        required_confidences == [i \in 1..Len(present) |-> conf[FieldKey(present[i])]]
    IN  IF DOMAIN conf = {}
        THEN [score |-> RatInt(50),
              found |-> <<QualityIssue("warning", "confidence", "confidence_scores",
                                       Msg("No confidence scores provided by AI",
                                           "confidence_scores"))>>]
        ELSE IF Len(required_confidences) > 0
        THEN [score |-> RatMul(RatDiv(RatSum(required_confidences),
                                      RatInt(Len(required_confidences))),
                               RatInt(100)),
              found |-> ConfidenceIssues(conf, REQUIRED_FIELDS)]
        ELSE [score |-> RatInt(50), found |-> ConfidenceIssues(conf, REQUIRED_FIELDS)]

\* a confidence score without the empty-map case
CalculateConfidenceScoreWithoutEmptyCase(ex) ==
    LET conf == ex.confidence_scores
        required_confidences ==
            [i \in 1..Len(REQUIRED_FIELDS) |->
                IF FieldKey(REQUIRED_FIELDS[i]) \in DOMAIN conf
                THEN conf[FieldKey(REQUIRED_FIELDS[i])]
                ELSE Rat(5, 10)]
    IN  [score |-> RatMul(RatDiv(RatSum(required_confidences),
                                 RatInt(Len(required_confidences))),
                          RatInt(100)),
         found |-> ConfidenceIssues(conf, REQUIRED_FIELDS)]

\* _calculate_confidence_score
CalculateConfidenceScore(ex) ==
    LET conf == ex.confidence_scores
        required_confidences ==
            [i \in 1..Len(REQUIRED_FIELDS) |->
                IF FieldKey(REQUIRED_FIELDS[i]) \in DOMAIN conf
                THEN conf[FieldKey(REQUIRED_FIELDS[i])]
                ELSE Rat(5, 10)]
    IN  IF DOMAIN conf = {}
        THEN [score |-> RatInt(50),
              found |-> <<QualityIssue("warning", "confidence", "confidence_scores",
                                       Msg("No confidence scores provided by AI",
                                           "confidence_scores"))>>]
        ELSE IF Len(required_confidences) > 0
        THEN [score |-> RatMul(RatDiv(RatSum(required_confidences),
                                      RatInt(Len(required_confidences))),
                               RatInt(100)),
              found |-> ConfidenceIssues(conf, REQUIRED_FIELDS)]
        ELSE [score |-> RatInt(50), found |-> ConfidenceIssues(conf, REQUIRED_FIELDS)]

\* a filled test that does not strip strings and accepts a zero number
IsFieldFilledUnstripped(ex, field) ==
    LET value == GetAttrPath(ex, field)
    IN  IF IsNone(value) THEN FALSE
        ELSE CASE FieldType(field) = "str" -> Len(Val(value)) > 0
               [] FieldType(field) = "Literal" -> Val(value) # ""
               [] FieldType(field) = "list" -> Len(Val(value)) > 0
               [] FieldType(field) = "Decimal" -> Val(value) >= 0
               [] OTHER -> TRUE

\* _is_field_filled
IsFieldFilled(ex, field) ==
    LET value == GetAttrPath(ex, field)
    IN  IF IsNone(value) THEN FALSE
        ELSE CASE FieldType(field) = "str" -> Len(Strip(Val(value))) > 0
               [] FieldType(field) = "Literal" -> Val(value) # ""
               [] FieldType(field) = "list" -> Len(Val(value)) > 0
               [] FieldType(field) = "Decimal" -> Val(value) > 0
               [] OTHER -> TRUE

RECURSIVE CountFilled(_, _)
CountFilled(ex, fields) ==
    IF fields = <<>> THEN 0
    ELSE (IF IsFieldFilled(ex, Head(fields)) THEN 1 ELSE 0) + CountFilled(ex, Tail(fields))

RECURSIVE MissingIssues(_, _)
MissingIssues(ex, fields) ==
    IF fields = <<>> THEN <<>>
    ELSE (IF IsFieldFilled(ex, Head(fields)) THEN <<>>
          ELSE <<QualityIssue("error", "completeness", Head(fields),
                              Msg("Required field is missing or empty", Head(fields)))>>)
         \o MissingIssues(ex, Tail(fields))

\* the completeness formula over the two filled counts
WeightedCompleteness(required_filled, required_total, bonus_filled, bonus_total) ==
    LET required_percentage ==
            IF required_total > 0 THEN Rat(required_filled, required_total) ELSE RatInt(0)
        bonus_percentage ==
            IF bonus_total > 0 THEN Rat(bonus_filled, bonus_total) ELSE RatInt(0)
    IN  RatMul(RatAdd(RatMul(required_percentage, Rat(7, 10)),
                      RatMul(bonus_percentage, Rat(3, 10))),
               RatInt(100))

\* _calculate_completeness_score
CalculateCompletenessScore(ex) ==
    [score |-> WeightedCompleteness(CountFilled(ex, REQUIRED_FIELDS), Len(REQUIRED_FIELDS),
                                    CountFilled(ex, BONUS_FIELDS), Len(BONUS_FIELDS)),
     found |-> MissingIssues(ex, REQUIRED_FIELDS)]


\* one rule or check as evaluated: whether it counts, whether it passed, and
\* the issue appended when it counted and failed
Rule(applies, passes, issue) == [applies |-> applies, passes |-> passes, issue |-> issue]

RECURSIVE TotalOf(_)
TotalOf(rules) ==
    IF rules = <<>> THEN 0
    ELSE (IF Head(rules).applies THEN 1 ELSE 0) + TotalOf(Tail(rules))

RECURSIVE PassedOf(_)
PassedOf(rules) ==
    IF rules = <<>> THEN 0
    ELSE (IF Head(rules).applies /\ Head(rules).passes THEN 1 ELSE 0) + PassedOf(Tail(rules))

RECURSIVE FoundOf(_)
FoundOf(rules) ==
    IF rules = <<>> THEN <<>>
    ELSE (IF Head(rules).applies /\ ~Head(rules).passes THEN <<Head(rules).issue>> ELSE <<>>)
         \o FoundOf(Tail(rules))

\* score = (passed / total * 100) if total > 0 else 100
TallyScore(rules) ==
    IF TotalOf(rules) > 0
    THEN RatMul(Rat(PassedOf(rules), TotalOf(rules)), RatInt(100))
    ELSE RatInt(100)

\* a rent rule that reports its failure as a warning
RentRuleAsWarning(ex) ==
    Rule(TRUE, ex.warm_rent >= ex.cold_rent,
         QualityIssue("warning", "validation", "rent", Msg("Warm rent < Cold rent", "rent")))

\* Rule 1: warm rent >= cold rent
RentRule(ex) ==
    Rule(TRUE, ex.warm_rent >= ex.cold_rent,
         QualityIssue("error", "validation", "rent", Msg("Warm rent < Cold rent", "rent")))

\* Rule 2: utilities within 10% of warm - cold (- parking)
UtilitiesRule(ex) ==
    LET expected_utilities ==
            (ex.warm_rent - ex.cold_rent)
              - (IF Truthy(ex.parking_rent) THEN Val(ex.parking_rent) ELSE 0)
        tolerance == RatMul(RatInt(expected_utilities), Rat(10, 100))
    IN  Rule(Truthy(ex.utilities_cost),
             /\ Truthy(ex.utilities_cost)
             /\ RatLe(RatInt(Abs(Val(ex.utilities_cost) - expected_utilities)), tolerance),
             QualityIssue("warning", "validation", "utilities_cost",
                          Msg("Utilities don't match warm-cold difference", "utilities_cost")))

\* Rule 3: end date after start date
DatesRule(ex) ==
    Rule(~IsNone(ex.contract_end_date),
         /\ ~IsNone(ex.contract_end_date)
         /\ Val(ex.contract_end_date) > ex.contract_start_date,
         QualityIssue("error", "validation", "contract_dates",
                      Msg("Contract end date is before start date", "contract_dates")))

\* Rule 4: cold rent in [100, 10000]
ColdRentRule(ex) ==
    Rule(TRUE, 100 <= ex.cold_rent /\ ex.cold_rent <= 10000,
         QualityIssue("warning", "validation", "cold_rent",
                      Msg("Unusual cold rent amount", "cold_rent")))

\* Rule 5: deposit in [2, 3 * 1.2] cold rents
DepositRule(ex) ==
    LET expected_deposit_min == RatInt(ex.cold_rent * 2)
        expected_deposit_max == RatMul(RatInt(ex.cold_rent * 3), Rat(12, 10))
    IN  Rule(Truthy(ex.deposit_amount),
             /\ Truthy(ex.deposit_amount)
             /\ RatLe(expected_deposit_min, RatInt(Val(ex.deposit_amount)))
             /\ RatLe(RatInt(Val(ex.deposit_amount)), expected_deposit_max),
             QualityIssue("info", "validation", "deposit_amount",
                          Msg("Deposit unusual for rent", "deposit_amount")))

\* Rule 6: at least one tenant
TenantsRule(ex) ==
    Rule(TRUE, Len(ex.tenants) > 0,
         QualityIssue("error", "validation", "tenants", Msg("No tenants found", "tenants")))

\* Rule 7: rooms in [0.5, 10] (number_of_rooms is held in tenths)
RoomsRule(ex) ==
    Rule(Truthy(ex.number_of_rooms),
         /\ Truthy(ex.number_of_rooms)
         /\ RatLe(Rat(5, 10), Rat(Val(ex.number_of_rooms), 10))
         /\ RatLe(Rat(Val(ex.number_of_rooms), 10), RatInt(10)),
         QualityIssue("warning", "validation", "number_of_rooms",
                      Msg("Unusual number of rooms", "number_of_rooms")))

\* Rule 8: area in [10, 500]
AreaRule(ex) ==
    Rule(Truthy(ex.square_meters),
         /\ Truthy(ex.square_meters)
         /\ 10 <= Val(ex.square_meters) /\ Val(ex.square_meters) <= 500,
         QualityIssue("warning", "validation", "square_meters",
                      Msg("Unusual square meters", "square_meters")))

ValidationRules(ex) ==
    <<RentRule(ex), UtilitiesRule(ex), DatesRule(ex), ColdRentRule(ex),
      DepositRule(ex), TenantsRule(ex), RoomsRule(ex), AreaRule(ex)>>

\* _calculate_validation_score
CalculateValidationScore(ex) ==
    [score |-> TallyScore(ValidationRules(ex)), found |-> FoundOf(ValidationRules(ex))]

\* an activity check that gives a contract without end date a term of 150
\* days from its start
ActiveCheckDefaultTerm(ex, day) ==
    IF ~IsNone(ex.contract_end_date)
    THEN Rule(TRUE, ex.is_active = (Val(ex.contract_end_date) >= day),
              QualityIssue("warning", "consistency", "is_active",
                           Msg("is_active inconsistent with end_date", "is_active")))
    ELSE Rule(TRUE, ex.is_active = (ex.contract_start_date + 150 >= day),
              QualityIssue("info", "consistency", "is_active",
                           Msg("Unlimited contract marked as inactive", "is_active")))

\* Check 1: is_active against the end date and today
ActiveCheck(ex, day) ==
    IF ~IsNone(ex.contract_end_date)
    THEN Rule(TRUE, ex.is_active = (Val(ex.contract_end_date) >= day),
              QualityIssue("warning", "consistency", "is_active",
                           Msg("is_active inconsistent with end_date", "is_active")))
    ELSE Rule(TRUE, ex.is_active,
              QualityIssue("info", "consistency", "is_active",
                           Msg("Unlimited contract marked as inactive", "is_active")))

\* a schedule check that accepts any schedule that is not None
ScheduleCheckNoneOnly(ex) ==
    IF ex.rent_increase_type = "fixed_step"
    THEN Rule(TRUE, ~IsNone(ex.rent_increase_schedule),
              QualityIssue("warning", "consistency", "rent_increase_schedule",
                           Msg("Rent type is 'fixed_step' but no schedule provided",
                               "rent_increase_schedule")))
    ELSE IF ex.rent_increase_type = "none"
    THEN Rule(TRUE, IsNone(ex.rent_increase_schedule),
              QualityIssue("warning", "consistency", "rent_increase_schedule",
                           Msg("Rent type is 'none' but schedule exists",
                               "rent_increase_schedule")))
    ELSE Rule(TRUE, TRUE,
              QualityIssue("warning", "consistency", "rent_increase_schedule",
                           Msg("", "rent_increase_schedule")))

\* Check 2: the schedule against rent_increase_type
ScheduleCheck(ex) ==
    IF ex.rent_increase_type = "fixed_step"
    THEN Rule(TRUE, NonEmpty(ex.rent_increase_schedule),
              QualityIssue("warning", "consistency", "rent_increase_schedule",
                           Msg("Rent type is 'fixed_step' but no schedule provided",
                               "rent_increase_schedule")))
    ELSE IF ex.rent_increase_type = "none"
    THEN Rule(TRUE, ~NonEmpty(ex.rent_increase_schedule),
              QualityIssue("warning", "consistency", "rent_increase_schedule",
                           Msg("Rent type is 'none' but schedule exists",
                               "rent_increase_schedule")))
    ELSE Rule(TRUE, TRUE,
              QualityIssue("warning", "consistency", "rent_increase_schedule",
                           Msg("", "rent_increase_schedule")))

\* Check 3: legacy name fields against the first tenant
LegacyNameCheck(ex) ==
    Rule(Len(ex.tenants) > 0,
         /\ Len(ex.tenants) > 0
         /\ ex.name = Some(ex.tenants[1].first_name)
         /\ ex.surname = Some(ex.tenants[1].last_name),
         QualityIssue("info", "consistency", "name/surname",
                      Msg("Legacy name fields don't match first tenant", "name/surname")))

\* the city names the postal-code check knows
IsMunich(city) ==
    \/ Contains(<<"m", "~u", "n", "c", "h", "e", "n">>, Lower(city))
    \/ Contains(<<"m", "u", "n", "i", "c", "h">>, Lower(city))

\* Check 4: postal code against the city; counted for every city
PostalCheck(ex) ==
    Rule(TRUE,
         IF IsMunich(ex.address.city)
         THEN 80000 <= ParseInt(ex.address.zip_code) /\ ParseInt(ex.address.zip_code) <= 81999
         ELSE TRUE,
         QualityIssue("info", "consistency", "address",
                      Msg("Postal code unusual for Muenchen", "address")))

\* Check 5: parking rent below cold rent
ParkingCheck(ex) ==
    Rule(Truthy(ex.parking_rent),
         Truthy(ex.parking_rent) /\ Val(ex.parking_rent) < ex.cold_rent,
         QualityIssue("warning", "consistency", "parking_rent",
                      Msg("Parking >= Cold rent", "parking_rent")))

ConsistencyChecks(ex, day) ==
    <<ActiveCheck(ex, day), ScheduleCheck(ex), LegacyNameCheck(ex), PostalCheck(ex),
      ParkingCheck(ex)>>

\* _calculate_consistency_score
CalculateConsistencyScore(ex, day) ==
    [score |-> TallyScore(ConsistencyChecks(ex, day)),
     found |-> FoundOf(ConsistencyChecks(ex, day))]

CONFIDENCE_WEIGHT == Rat(30, 100)

COMPLETENESS_WEIGHT == Rat(25, 100)

VALIDATION_WEIGHT == Rat(25, 100)

CONSISTENCY_WEIGHT == Rat(20, 100)

\* a weighted sum with the confidence and consistency weights exchanged
OverallScoreWeightsExchanged(confidence, completeness, validation, consistency) ==
    RatAdd(RatAdd(RatAdd(RatMul(confidence, CONSISTENCY_WEIGHT),
                         RatMul(completeness, COMPLETENESS_WEIGHT)),
                  RatMul(validation, VALIDATION_WEIGHT)),
           RatMul(consistency, CONFIDENCE_WEIGHT))

\* the weighted overall score
OverallScore(confidence, completeness, validation, consistency) ==
    RatAdd(RatAdd(RatAdd(RatMul(confidence, CONFIDENCE_WEIGHT),
                         RatMul(completeness, COMPLETENESS_WEIGHT)),
                  RatMul(validation, VALIDATION_WEIGHT)),
           RatMul(consistency, CONSISTENCY_WEIGHT))

\* _determine_quality_level
DetermineQualityLevel(score) ==
    IF RatLe(RatInt(90), score) THEN "excellent"
    ELSE IF RatLe(RatInt(75), score) THEN "good"
    ELSE IF RatLe(RatInt(60), score) THEN "fair"
    ELSE "poor"

\* QualityMetrics.quality_tier
QualityTier(metrics) ==
    IF RatLe(RatInt(80), metrics.overall_score) THEN "excellent"
    ELSE IF RatLe(RatInt(60), metrics.overall_score) THEN "good"
    ELSE "poor"

InRange(x, lo, hi) == RatLe(RatInt(lo), x) /\ RatLe(x, RatInt(hi))

\* the Field(ge=..., le=...) constraints of QualityMetrics
MetricsValid(m) ==
    /\ InRange(m.overall_score, 0, 100)
    /\ InRange(m.confidence_score, 0, 1)
    /\ InRange(m.completeness_score, 0, 100)
    /\ InRange(m.validation_score, 0, 100)
    /\ InRange(m.consistency_score, 0, 100)

RECURSIVE MessagesOfBelowError(_, _)
\* a filter that lists every issue that is no error among the warnings
MessagesOfBelowError(iss, severity) ==
    IF iss = <<>> THEN <<>>
    ELSE (IF \/ Head(iss).severity = severity
             \/ (severity = "warning" /\ Head(iss).severity # "error")
          THEN <<Head(iss).message>> ELSE <<>>)
         \o MessagesOfBelowError(Tail(iss), severity)

RECURSIVE MessagesOf(_, _)
\* [issue.message for issue in self.issues if issue.severity == severity]
MessagesOf(iss, severity) ==
    IF iss = <<>> THEN <<>>
    ELSE (IF Head(iss).severity = severity THEN <<Head(iss).message>> ELSE <<>>)
         \o MessagesOf(Tail(iss), severity)


(***************************************************************************)
(* Schema validation (LeaseExtraction, AddressData, TenantInfo)            *)
(***************************************************************************)
Digits == {"0", "1", "2", "3", "4", "5", "6", "7", "8", "9"}

Letters == {"a", "b", "c", "A", "B", "C"}

\* re.match(r'^\d{5}$', v): "$" also matches before one trailing newline
PostalCodeMatches(v) ==
    LET core == IF Len(v) = 6 /\ v[6] = "\n" THEN SubSeq(v, 1, 5) ELSE v
    IN  Len(core) = 5 /\ \A i \in 1..5 : core[i] \in Digits

\* re.match(r'^[0-9]+[a-zA-Z]?$', v)
HouseNumberMatches(v) ==
    LET core == IF Len(v) > 0 /\ v[Len(v)] = "\n" THEN SubSeq(v, 1, Len(v) - 1) ELSE v
        body == IF Len(core) > 0 /\ core[Len(core)] \in Letters
                THEN SubSeq(core, 1, Len(core) - 1) ELSE core
    IN  Len(body) > 0 /\ \A i \in 1..Len(body) : body[i] \in Digits

\* a class body that declares cold_rent before warm_rent
FieldOrderColdRentFirst ==
    <<"tenants", "name", "surname", "address", "cold_rent", "warm_rent",
      "utilities_cost", "parking_rent", "rent_increase_type", "rent_increase_schedule",
      "contract_start_date", "contract_end_date", "is_active">>

\* the order pydantic validates the fields in: their order in the class body
FieldOrder ==
    <<"tenants", "name", "surname", "address", "warm_rent", "cold_rent",
      "utilities_cost", "parking_rent", "rent_increase_type", "rent_increase_schedule",
      "contract_start_date", "contract_end_date", "is_active">>

\* info.data while `field` is validated: the fields validated before it
ValidatedBefore(field) ==
    {FieldOrder[i] : i \in {j \in 1..Len(FieldOrder) :
                              \E k \in (j + 1)..Len(FieldOrder) : FieldOrder[k] = field}}

\* validate_warm_rent_vs_cold_rent: whether it raises
WarmRentValidatorRaises(c) ==
    "cold_rent" \in ValidatedBefore("warm_rent") /\ c.warm_rent < c.cold_rent

RentIncreaseTypes == {"index-linked", "percentage", "fixed_step", "none", "unknown"}

\* LeaseExtraction(**data) succeeds
SchemaAccepts(c) ==
    /\ Len(c.tenants) >= 1
    /\ \A i \in 1..Len(c.tenants) :
          Len(c.tenants[i].first_name) >= 1 /\ Len(c.tenants[i].last_name) >= 1
    /\ Len(c.address.street) >= 1
    /\ Len(c.address.city) >= 1
    /\ PostalCodeMatches(c.address.zip_code)
    /\ HouseNumberMatches(c.address.house_number)
    /\ c.warm_rent > 0
    /\ c.cold_rent > 0
    /\ ~WarmRentValidatorRaises(c)
    /\ ~IsNone(c.utilities_cost) => Val(c.utilities_cost) >= 0
    /\ ~IsNone(c.parking_rent) => Val(c.parking_rent) >= 0
    /\ c.rent_increase_type \in RentIncreaseTypes
    /\ ~IsNone(c.deposit_amount) => Val(c.deposit_amount) > 0
    /\ ~IsNone(c.square_meters) => Val(c.square_meters) > 0
    /\ ~IsNone(c.number_of_rooms) => Val(c.number_of_rooms) > 0

(***************************************************************************)
(* The records the callers pass to assess_quality                          *)
(***************************************************************************)
MaxTenants == 2

Blank == <<" ">>

Main == <<"M", "a", "i", "n">>

Berlin == <<"B", "e", "r", "l", "i", "n">>

Muenchen == <<"M", "~u", "n", "c", "h", "e", "n">>

MUNICH == <<"M", "U", "N", "I", "C", "H">>

Zip10115 == <<"1", "0", "1", "1", "5">>

Zip80798 == <<"8", "0", "7", "9", "8">>

Zip99999 == <<"9", "9", "9", "9", "9">>

Tenant(i) == [first_name |-> <<"T", "a", "b", "c">>, last_name |-> <<"D", "a", "b", "c">>]

TenantList(n) == [i \in 1..n |-> Tenant(i)]

Days == {200, 300}

\* test_quality_scorer.py's minimal_extraction, with no confidence data
BaseRecord ==
    [tenants |-> TenantList(1), name |-> None, surname |-> None,
     address |-> [street |-> Main, house_number |-> <<"1">>, zip_code |-> Zip10115,
                  city |-> Berlin],
     warm_rent |-> 1000, cold_rent |-> 800, utilities_cost |-> None,
     parking_rent |-> None, rent_increase_type |-> "unknown",
     rent_increase_schedule |-> None, contract_start_date |-> 100,
     contract_end_date |-> None, is_active |-> TRUE,
     landlord_name |-> None, landlord_address |-> None, deposit_amount |-> None,
     notice_period |-> None, special_clauses |-> None, utilities_included |-> None,
     square_meters |-> None, number_of_rooms |-> None,
     confidence_scores |-> <<>>]

\* "no entry for this key"
Absent == <<-1, 1>>

ConfOf(keys, values) ==
    [k \in {keys[i] : i \in {j \in 1..Len(keys) : values[j] # Absent}} |->
        values[CHOOSE i \in 1..Len(keys) : keys[i] = k]]

FullConfidence ==
    ConfOf(<<"tenants", "address", "warm_rent", "cold_rent",
             "contract_start_date", "rent_increase_type">>,
           <<RatInt(1), RatInt(1), RatInt(1), RatInt(1), RatInt(1), RatInt(1)>>)

Str(x) == <<x>>

Step == [date |-> Str("d"), increase |-> Str("5")]

\* the candidates of calls that share the instance with, or follow, another call
SharedCandidates ==
        {BaseRecord,
         [BaseRecord EXCEPT !.warm_rent = 500],
         [BaseRecord EXCEPT !.confidence_scores =
             ConfOf(<<"tenants", "warm_rent">>, <<Rat(3, 10), Rat(3, 10)>>)],
         [BaseRecord EXCEPT !.address.street = Blank,
                            !.rent_increase_type = "fixed_step"]}


(***************************************************************************)
(* QualityScorer.assess_quality, statement by statement.  self.issues is   *)
(* an attribute of the one shared instance; everything else is local to    *)
(* the call.                                                               *)
(***************************************************************************)
Threads == {"t1", "t2"}

NoScores ==
    [confidence |-> RatInt(0), completeness |-> RatInt(0), validation |-> RatInt(0),
     consistency |-> RatInt(0), overall |-> RatInt(0), quality_level |-> ""]

NoMetrics ==
    [overall_score |-> RatInt(0), confidence_score |-> RatInt(0),
     completeness_score |-> RatInt(0), validation_score |-> RatInt(0),
     consistency_score |-> RatInt(0), validation_errors |-> <<>>, warnings |-> <<>>,
     field_scores |-> <<>>]

NoReport == [status |-> "none", metrics |-> NoMetrics]

SInit ==
    /\ issues = <<>>
    /\ spc = [t \in Threads |-> "idle"]
    /\ extraction = [t \in Threads |-> BaseRecord]
    /\ scores = [t \in Threads |-> NoScores]
    /\ errlist = [t \in Threads |-> <<>>]
    /\ report = [t \in Threads |-> NoReport]
    /\ today = [t \in Threads |-> 0]

\* an entry that leaves self.issues as the previous call left it
BeginKeepingIssues(t, c) ==
    /\ SchemaAccepts(c)
    /\ extraction' = [extraction EXCEPT ![t] = ModelPostInit(c)]
    /\ issues' = issues
    /\ spc' = [spc EXCEPT ![t] = "confidence"]
    /\ scores' = [scores EXCEPT ![t] = NoScores]
    /\ errlist' = [errlist EXCEPT ![t] = <<>>]
    /\ report' = [report EXCEPT ![t] = NoReport]
    /\ today' = [today EXCEPT ![t] = 0]
    /\ UNCHANGED xvars
    /\ UNCHANGED uvars

\* assess_quality(extraction) is entered with the record LeaseExtraction(**c)
\* constructs: self.issues = []
Begin(t, c) ==
    /\ SchemaAccepts(c)
    /\ extraction' = [extraction EXCEPT ![t] = ModelPostInit(c)]
    /\ issues' = <<>>
    /\ spc' = [spc EXCEPT ![t] = "confidence"]
    /\ scores' = [scores EXCEPT ![t] = NoScores]
    /\ errlist' = [errlist EXCEPT ![t] = <<>>]
    /\ report' = [report EXCEPT ![t] = NoReport]
    /\ today' = [today EXCEPT ![t] = 0]
    /\ UNCHANGED xvars
    /\ UNCHANGED uvars

\* a first call, with records that differ in their confidence map: an entry
\* per key, or none
AssessConfidenceCase(t) ==
    /\ spc[t] = "idle"
    /\ \E tn \in {Absent, Rat(3, 10), Rat(6, 10), RatInt(1), Rat(15, 10)},
          ad \in {Absent, Rat(3, 10), Rat(6, 10), RatInt(1)},
          wr \in {Absent, Rat(3, 10), RatInt(1)},
          cr \in {Absent, RatInt(1)},
          sd \in {Absent, RatInt(1)},
          ty \in {Absent, RatInt(1)},
          ln \in {Absent, Rat(9, 10)} :
         Begin(t, [BaseRecord EXCEPT !.confidence_scores =
                     ConfOf(<<"tenants", "address", "warm_rent", "cold_rent",
                              "contract_start_date", "rent_increase_type",
                              "landlord_name">>,
                            <<tn, ad, wr, cr, sd, ty, ln>>)])

\* a first call, with records that differ in which fields are filled
AssessFillCase(t) ==
    /\ spc[t] = "idle"
    /\ \E st \in {Main, Blank}, ci \in {Berlin, Blank},
          ln \in {None, Some(<<>>), Some(Str("L"))},
          np \in {None, Some(<<" ", "3", "M", " ">>)},
          sc \in {None, Some(<<>>), Some(<<Str("c")>>)},
          pr \in {None, Some(0), Some(75)},
          g1 \in {<<None, None, None>>,
                  <<Some(Blank), Some(<<Str("h"), Str("w")>>), Some(2400)>>},
          g2 \in {<<None, None, None>>, <<Some(65), Some(25), Some(125)>>} :
         Begin(t, [BaseRecord EXCEPT !.confidence_scores = FullConfidence,
                        !.address.street = st, !.address.city = ci,
                        !.landlord_name = ln, !.notice_period = np,
                        !.special_clauses = sc, !.parking_rent = pr,
                        !.landlord_address = g1[1], !.utilities_included = g1[2],
                        !.deposit_amount = g1[3],
                        !.square_meters = g2[1], !.number_of_rooms = g2[2],
                        !.utilities_cost = g2[3]])

\* a first call, with records that differ in what the validation rules read
AssessValidationCase(t) ==
    /\ spc[t] = "idle"
    /\ \E wr \in {500, 1000}, cr \in {50, 800, 12000},
          up \in {<<None, None>>, <<Some(0), None>>, <<Some(200), None>>,
                  <<Some(200), Some(75)>>, <<Some(125), Some(75)>>},
          ed \in {None, Some(50), Some(250)},
          de \in {None, Some(50), Some(2400)},
          rs \in {<<None, None>>, <<Some(4), Some(5)>>, <<Some(20), Some(65)>>,
                  <<Some(4), Some(65)>>, <<Some(20), Some(600)>>} :
         Begin(t, [BaseRecord EXCEPT !.warm_rent = wr, !.cold_rent = cr,
                        !.utilities_cost = up[1], !.parking_rent = up[2],
                        !.contract_end_date = ed, !.deposit_amount = de,
                        !.number_of_rooms = rs[1], !.square_meters = rs[2]])

\* a first call, with records that differ in what the consistency checks read
AssessConsistencyCase(t) ==
    /\ spc[t] = "idle"
    /\ \E n \in 1..MaxTenants, ia \in BOOLEAN,
          ed \in {None, Some(150), Some(200), Some(250)},
          ty \in {"fixed_step", "none", "index-linked"},
          sch \in {None, Some(<<>>), Some(<<Step>>)},
          np \in {<<None, None>>, <<Some(Str("B")), Some(75)>>, <<None, Some(900)>>},
          cz \in {<<Berlin, Zip10115>>, <<Muenchen, Zip80798>>, <<MUNICH, Zip99999>>} :
         Begin(t, [BaseRecord EXCEPT !.tenants = TenantList(n), !.is_active = ia,
                        !.contract_end_date = ed, !.rent_increase_type = ty,
                        !.rent_increase_schedule = sch, !.name = np[1],
                        !.parking_rent = np[2],
                        !.address.city = cz[1], !.address.zip_code = cz[2]])

\* a call that shares the instance with another caller's call
AssessShared(t) ==
    /\ spc[t] = "idle"
    /\ \E c \in SharedCandidates : Begin(t, c)

\* a call that follows an earlier call of the same caller
AssessAgain(t) ==
    /\ spc[t] \in {"done", "raised"}
    /\ \E c \in SharedCandidates : Begin(t, c)

\* confidence_score = self._calculate_confidence_score(extraction)
ScoreConfidence(t) ==
    /\ spc[t] = "confidence"
    /\ LET r == CalculateConfidenceScore(extraction[t])
       IN  /\ issues' = issues \o r.found
           /\ scores' = [scores EXCEPT ![t].confidence = r.score]
    /\ spc' = [spc EXCEPT ![t] = "completeness"]
    /\ UNCHANGED <<extraction, errlist, report, today>>
    /\ UNCHANGED xvars
    /\ UNCHANGED uvars

\* completeness_score = self._calculate_completeness_score(extraction)
ScoreCompleteness(t) ==
    /\ spc[t] = "completeness"
    /\ LET r == CalculateCompletenessScore(extraction[t])
       IN  /\ issues' = issues \o r.found
           /\ scores' = [scores EXCEPT ![t].completeness = r.score]
    /\ spc' = [spc EXCEPT ![t] = "validation"]
    /\ UNCHANGED <<extraction, errlist, report, today>>
    /\ UNCHANGED xvars
    /\ UNCHANGED uvars

\* validation_score = self._calculate_validation_score(extraction)
ScoreValidation(t) ==
    /\ spc[t] = "validation"
    /\ LET r == CalculateValidationScore(extraction[t])
       IN  /\ issues' = issues \o r.found
           /\ scores' = [scores EXCEPT ![t].validation = r.score]
    /\ spc' = [spc EXCEPT ![t] = "consistency"]
    /\ UNCHANGED <<extraction, errlist, report, today>>
    /\ UNCHANGED xvars
    /\ UNCHANGED uvars

\* consistency_score = self._calculate_consistency_score(extraction), which
\* reads date.today()
ScoreConsistency(t) ==
    /\ spc[t] = "consistency"
    /\ \E day \in Days :
         LET r == CalculateConsistencyScore(extraction[t], day)
         IN  /\ today' = [today EXCEPT ![t] = day]
             /\ issues' = issues \o r.found
             /\ scores' = [scores EXCEPT ![t].consistency = r.score]
    /\ spc' = [spc EXCEPT ![t] = "summary"]
    /\ UNCHANGED <<extraction, errlist, report>>
    /\ UNCHANGED xvars
    /\ UNCHANGED uvars

\* overall_score, quality_level, and the report's validation_errors list
\* (the first read of self.issues for the report)
Summarise(t) ==
    /\ spc[t] = "summary"
    /\ LET overall == OverallScore(scores[t].confidence, scores[t].completeness,
                                   scores[t].validation, scores[t].consistency)
       IN  scores' = [scores EXCEPT ![t].overall = overall,
                                    ![t].quality_level = DetermineQualityLevel(overall)]
    /\ errlist' = [errlist EXCEPT ![t] = MessagesOf(issues, "error")]
    /\ spc' = [spc EXCEPT ![t] = "report"]
    /\ UNCHANGED <<issues, extraction, report, today>>
    /\ UNCHANGED xvars
    /\ UNCHANGED uvars

\* the QualityMetrics the call builds
BuildMetrics(sc, errors, warns) ==
    [overall_score |-> sc.overall,
     confidence_score |-> RatDiv(sc.confidence, RatInt(100)),
     completeness_score |-> sc.completeness,
     validation_score |-> sc.validation,
     consistency_score |-> sc.consistency,
     validation_errors |-> errors,
     warnings |-> warns,
     field_scores |-> <<>>]

\* the warnings list (the second read of self.issues) and QualityMetrics(...),
\* which returns the report or raises pydantic's ValidationError
Finish(t) ==
    /\ spc[t] = "report"
    /\ LET m == BuildMetrics(scores[t], errlist[t], MessagesOf(issues, "warning"))
       IN  IF MetricsValid(m)
           THEN /\ report' = [report EXCEPT ![t] = [status |-> "returned", metrics |-> m]]
                /\ spc' = [spc EXCEPT ![t] = "done"]
           ELSE /\ report' = [report EXCEPT ![t] =
                                [status |-> "raised", metrics |-> NoMetrics]]
                /\ spc' = [spc EXCEPT ![t] = "raised"]
    /\ UNCHANGED <<issues, extraction, scores, errlist, today>>
    /\ UNCHANGED xvars
    /\ UNCHANGED uvars

AssessStep(t) ==
    \/ ScoreConfidence(t)
    \/ ScoreCompleteness(t)
    \/ ScoreValidation(t)
    \/ ScoreConsistency(t)
    \/ Summarise(t)
    \/ Finish(t)

(***************************************************************************)
(* AIExtractor: the completions and what the try body does with them       *)
(***************************************************************************)
\* the completions that do not parse to a JSON object
FailureKinds == {"api_error", "bad_json", "not_object"}

\* the keys LeaseExtraction requires that a JSON object may lack (held as
\* None) or carry (held as Some(value))
RequiredPresent(raw) ==
    /\ ~IsNone(raw.tenants)
    /\ ~IsNone(raw.warm_rent)
    /\ ~IsNone(raw.cold_rent)
    /\ ~IsNone(raw.contract_start_date)

\* the field values pydantic validates once the required keys are there
Parsed(raw) ==
    [raw EXCEPT !.tenants = Val(@), !.warm_rent = Val(@), !.cold_rent = Val(@),
                !.contract_start_date = Val(@)]

\* LeaseExtraction(**data) in _validate_extraction does not raise
ConstructAccepts(raw) ==
    IF RequiredPresent(raw) THEN SchemaAccepts(Parsed(raw)) ELSE FALSE

\* what a completion that parses to the JSON object raw comes back as
ObjectKind(raw) == IF ConstructAccepts(raw) THEN "valid" ELSE "schema_invalid"

\* the minimal record as the JSON object of a completion
BaseObject ==
    [BaseRecord EXCEPT !.tenants = Some(@), !.warm_rent = Some(@), !.cold_rent = Some(@),
                       !.contract_start_date = Some(@)]

\* one object the schema accepts and one it rejects
SharedObjects == {BaseObject, [BaseObject EXCEPT !.tenants = Some(<<>>)]}

\* the rest of the try body and the except clauses, up to the next await, a
\* return or a raise, for an awaited completion of the given kind
Complete(c, kind) ==
    LET exc == BodyRaises(kind)
        clause == ExceptClause(exc)
    IN  /\ responses' = [responses EXCEPT ![c] = Append(@, kind)]
        /\ IF exc.type = "none"
           THEN /\ xpc' = [xpc EXCEPT ![c] = "returned"]
                /\ outcome' = [outcome EXCEPT ![c] = [status |-> "result", exc |-> exc]]
                /\ UNCHANGED delays
           ELSE IF Retries(clause, attempt[c])
           THEN /\ xpc' = [xpc EXCEPT ![c] = "backoff"]
                /\ delays' = [delays EXCEPT ![c] =
                                Append(@, ExponentialBackoff(attempt[c]))]
                /\ UNCHANGED outcome
           ELSE /\ xpc' = [xpc EXCEPT ![c] = "raised"]
                /\ outcome' = [outcome EXCEPT ![c] =
                                 [status |-> "raised", exc |-> ClauseRaises(clause, exc)]]
                /\ UNCHANGED delays
        /\ UNCHANGED <<attempt, invocations>>
        /\ UNCHANGED svars
        /\ UNCHANGED uvars

\* the awaited completion parses to the JSON object raw, which
\* _validate_extraction accepts or rejects
CompleteWithObject(c, raw) ==
    /\ candidate' = [candidate EXCEPT ![c] = Some(raw)]
    /\ Complete(c, ObjectKind(raw))

\* the awaited completion comes back: with a failure, or with one of two
\* JSON objects
CompletionReturns(c) ==
    /\ xpc[c] = "awaiting"
    /\ Resumable(c)
    /\ \/ \E kind \in FailureKinds : Complete(c, kind) /\ UNCHANGED candidate
       \/ \E raw \in SharedObjects : CompleteWithObject(c, raw)

\* the awaited completion comes back with a JSON object that may miss or
\* malform any of the fields the schema checks
CompletionParsed(c) ==
    /\ xpc[c] = "awaiting"
    /\ Resumable(c)
    /\ \E tn \in {None, Some(<<>>), Some(TenantList(1))},
          zc \in {Zip10115, <<"1", "0", "1", "1">>, <<"1", "0", "1", "1", "5", "0">>,
                  <<"1", "0", "1", "1", "a">>, <<"1", "0", "1", "1", "5", "\n">>},
          hn \in {<<"1">>, <<"2", "5", "a">>, <<"a">>, <<>>},
          wr \in {None, Some(0), Some(500), Some(1000)},
          cr \in {None, Some(-5), Some(800)},
          sd \in {None, Some(100)},
          ty \in {"unknown", "fixed_step", "stepped"} :
         CompleteWithObject(c, [BaseObject EXCEPT !.tenants = tn,
                                    !.address.zip_code = zc, !.address.house_number = hn,
                                    !.warm_rent = wr, !.cold_rent = cr,
                                    !.contract_start_date = sd,
                                    !.rent_increase_type = ty])

(***************************************************************************)
(* AIExtractor: cancellation of the task that runs extract()               *)
(***************************************************************************)
\* asyncio.CancelledError, thrown into the coroutine at the await it is
\* suspended in
CancelledError == [type |-> "CancelledError", cause |-> "none"]

\* a clause list that treats a cancellation like an API error
HandlerOfCatchingCancellation(exc, point) ==
    IF point = "backoff" THEN "none"
    ELSE IF exc.type = "CancelledError" THEN "OpenAIError"
    ELSE ExceptClause(exc)

\* the except clause of the loop's try statement that handles an exception
\* raised at the given await, "none" when it propagates to the caller: the
\* backoff's await sits inside an except clause, and CancelledError derives
\* from BaseException, which none of the three clauses names
HandlerOf(exc, point) ==
    IF point = "backoff" THEN "none"
    ELSE IF exc.type = "CancelledError" THEN "none"
    ELSE ExceptClause(exc)

\* the caller cancels the task while the call is suspended in the completion's
\* await or in asyncio.sleep
Cancel(c) ==
    /\ xpc[c] \in {"awaiting", "backoff"}
    /\ Resumable(c)
    /\ LET clause == HandlerOf(CancelledError, xpc[c])
       IN  IF clause = "none"
           THEN /\ xpc' = [xpc EXCEPT ![c] = "cancelled"]
                /\ outcome' = [outcome EXCEPT ![c] =
                                 [status |-> "cancelled", exc |-> CancelledError]]
                /\ UNCHANGED delays
           ELSE IF Retries(clause, attempt[c])
           THEN /\ xpc' = [xpc EXCEPT ![c] = "backoff"]
                /\ delays' = [delays EXCEPT ![c] =
                                Append(@, ExponentialBackoff(attempt[c]))]
                /\ UNCHANGED outcome
           ELSE /\ xpc' = [xpc EXCEPT ![c] = "raised"]
                /\ outcome' = [outcome EXCEPT ![c] =
                                 [status |-> "raised",
                                  exc |-> ClauseRaises(clause, CancelledError)]]
                /\ UNCHANGED delays
    /\ UNCHANGED <<attempt, invocations, responses, candidate>>
    /\ UNCHANGED svars
    /\ UNCHANGED uvars

(***************************************************************************)
(* Upload API (api/upload.py).  An uploaded file is described by what the  *)
(* pipeline makes of it: its filename, whether file_manager can save it,   *)
(* the length of the text pdf_processor extracts (raw, and after strip()), *)
(* how ai_extractor.extract ends for that text and how assess_quality ends *)
(* for the record.                                                         *)
(***************************************************************************)
max_files == 3

MaxBatch == 4

NoExc == [type |-> "none", status_code |-> 0]

HTTPException(status_code) == [type |-> "HTTPException", status_code |-> status_code]

\* an exception that is no HTTPException
Raised(type) == [type |-> type, status_code |-> 0]

\* Path(filename).suffix
Suffix(filename) ==
    LET dots == {i \in 2..Len(filename) : filename[i] = "."}
    IN  IF dots = {} THEN <<>>
        ELSE LET k == CHOOSE i \in dots : \A j \in dots : j <= i
             IN  IF k = Len(filename) THEN <<>> ELSE SubSeq(filename, k, Len(filename))

\* validate_file_upload: the HTTPException it raises, if any
ValidateFileUpload(file) ==
    IF file.filename = <<>> THEN HTTPException(400)
    ELSE IF \/ Contains(<<".", ".">>, file.filename)
            \/ Contains(<<"/">>, file.filename)
            \/ Contains(<<"\\">>, file.filename)
    THEN HTTPException(400)
    ELSE IF Lower(Suffix(file.filename)) \notin {<<".", "p", "d", "f">>}
    THEN HTTPException(400)
    ELSE NoExc

\* not pdf_text or len(pdf_text.strip()) < 100
TextUnusable(text) == text.raw = 0 \/ text.stripped < 100

\* the try body of process_upload: what it raises, if anything, and the
\* services it has called by then
ProcessUploadBody(file) ==
    IF TextUnusable(file.text)
    THEN [exc |-> HTTPException(422), calls |-> <<"extract_text">>]
    ELSE IF file.ai = "raised"
    THEN [exc |-> Raised("ExtractionError"), calls |-> <<"extract_text", "extract">>]
    ELSE IF file.quality = "raised"
    THEN [exc |-> Raised("ValidationError"),
          calls |-> <<"extract_text", "extract", "assess_quality">>]
    ELSE [exc |-> NoExc, calls |-> <<"extract_text", "extract", "assess_quality">>]

\* the except clause of process_upload that handles the exception:
\* HTTPException is an Exception and no ValidationError
ProcessUploadClause(exc) ==
    IF exc.type = "ValidationError" THEN "ValidationError" ELSE "Exception"

\* process_upload: returns (NoExc) or raises an HTTPException
ProcessUpload(file) ==
    LET body == ProcessUploadBody(file)
    IN  IF body.exc = NoExc THEN body
        ELSE IF ProcessUploadClause(body.exc) = "ValidationError"
        THEN [exc |-> HTTPException(422), calls |-> body.calls]
        ELSE [exc |-> HTTPException(500), calls |-> body.calls]

\* validate_file_upload, file_manager.save_uploaded_file (which turns every
\* failure into IOError) and process_upload, as both endpoints run them for
\* one file
FileRun(file) ==
    IF ValidateFileUpload(file) # NoExc
    THEN [exc |-> ValidateFileUpload(file), calls |-> <<>>]
    ELSE IF ~file.saves THEN [exc |-> Raised("IOError"), calls |-> <<>>]
    ELSE ProcessUpload(file)

\* a clause list with the HTTPException clause alone
EndpointClauseHTTPOnly(exc) ==
    IF exc.type = "HTTPException" THEN "HTTPException" ELSE "none"

\* the except clause of an endpoint's try statement that handles the
\* exception ("none": it leaves the endpoint)
EndpointClause(exc) ==
    IF exc.type = "HTTPException" THEN "HTTPException" ELSE "Exception"

\* a text PDF of a lease that every stage accepts
GoodFile ==
    [filename |-> <<"a", ".", "p", "d", "f">>, saves |-> TRUE,
     text |-> [raw |-> 120, stripped |-> 100], ai |-> "result", quality |-> "returned"]

\* the files of batch requests: one per way a file can end
BatchFiles ==
    {GoodFile,
     [GoodFile EXCEPT !.filename = <<>>],
     [GoodFile EXCEPT !.saves = FALSE],
     [GoodFile EXCEPT !.text = [raw |-> 120, stripped |-> 99]],
     [GoodFile EXCEPT !.ai = "raised"],
     [GoodFile EXCEPT !.quality = "raised"]}

\* the files of single uploads: also other filenames and text lengths
SingleFiles ==
    {[GoodFile EXCEPT !.filename = fn, !.saves = sv, !.text = tx, !.ai = ai,
                      !.quality = qu] :
        fn \in {GoodFile.filename, <<>>, <<".", ".", "/", "a", ".", "p", "d", "f">>,
                <<"a", ".", "P", "D", "F">>, <<"a", ".", "t", "x", "t">>, <<"a">>},
        sv \in BOOLEAN,
        tx \in {[raw |-> 0, stripped |-> 0], [raw |-> 50, stripped |-> 0],
                [raw |-> 120, stripped |-> 99], [raw |-> 120, stripped |-> 100],
                [raw |-> 5000, stripped |-> 4000]},
        ai \in {"result", "raised"},
        qu \in {"returned", "raised"}}

NoResponse == [endpoint |-> "", status |-> 0, body |-> <<>>]

UInit ==
    /\ upc = "idle"
    /\ files = <<>>
    /\ idx = 0
    /\ results = <<>>
    /\ errs = <<>>
    /\ response = NoResponse
    /\ calls = <<>>

\* who called which service: the entries of calls
Called(run, file_index) ==
    [i \in 1..Len(run.calls) |-> [file_index |-> file_index, service |-> run.calls[i]]]

\* upload_lease_document: POST /api/upload/ with one file
UploadLeaseDocument ==
    /\ upc = "idle"
    /\ \E file \in SingleFiles :
         LET run == FileRun(file)
         IN  /\ files' = <<file>>
             /\ calls' = Called(run, 0)
             /\ response' =
                  [endpoint |-> "/",
                   status |-> IF run.exc = NoExc THEN 200
                              ELSE IF EndpointClause(run.exc) = "HTTPException"
                              THEN run.exc.status_code
                              ELSE 500,
                   body |-> <<>>]
    /\ upc' = "responded"
    /\ UNCHANGED <<idx, results, errs>>
    /\ UNCHANGED <<xvars, svars>>

\* upload_multiple_documents: POST /api/upload/batch, up to the loop
UploadMultipleDocuments ==
    /\ upc = "idle"
    /\ \E n \in 0..MaxBatch : \E fs \in [1..n -> BatchFiles] :
         /\ files' = fs
         /\ IF Len(fs) > max_files \/ Len(fs) = 0
            THEN /\ response' = [endpoint |-> "/batch", status |-> 400, body |-> <<>>]
                 /\ upc' = "responded"
            ELSE /\ response' = NoResponse
                 /\ upc' = "batch"
    /\ idx' = 0
    /\ results' = <<>>
    /\ errs' = <<>>
    /\ calls' = <<>>
    /\ UNCHANGED <<xvars, svars>>

\* one iteration of the loop over enumerate(files)
ProcessNextFile ==
    /\ upc = "batch"
    /\ idx < Len(files)
    /\ LET file == files[idx + 1]
           run == FileRun(file)
           clause == EndpointClause(run.exc)
       IN  /\ calls' = calls \o Called(run, idx)
           /\ IF run.exc = NoExc
              THEN /\ results' = Append(results, [success |-> TRUE, file_index |-> idx])
                   /\ UNCHANGED <<errs, response>>
                   /\ upc' = "batch"
              ELSE IF clause = "HTTPException"
              THEN /\ errs' = Append(errs, [success |-> FALSE, file_index |-> idx,
                                            error_type |-> "HTTPException",
                                            status_code |-> Some(run.exc.status_code)])
                   /\ UNCHANGED <<results, response>>
                   /\ upc' = "batch"
              ELSE IF clause = "Exception"
              THEN /\ errs' = Append(errs, [success |-> FALSE, file_index |-> idx,
                                            error_type |-> run.exc.type,
                                            status_code |-> None])
                   /\ UNCHANGED <<results, response>>
                   /\ upc' = "batch"
              ELSE /\ response' = [endpoint |-> "/batch", status |-> 500, body |-> <<>>]
                   /\ upc' = "responded"
                   /\ UNCHANGED <<results, errs>>
    /\ idx' = idx + 1
    /\ UNCHANGED files
    /\ UNCHANGED <<xvars, svars>>

\* the return statement after the loop
BatchReturn ==
    /\ upc = "batch"
    /\ idx = Len(files)
    /\ response' =
         [endpoint |-> "/batch", status |-> 200,
          body |-> [total_files |-> Len(files), successful |-> Len(results),
                    failed |-> Len(errs), results |-> results,
                    errors |-> IF errs # <<>> THEN Some(errs) ELSE None]]
    /\ upc' = "responded"
    /\ UNCHANGED <<files, idx, results, errs, calls>>
    /\ UNCHANGED <<xvars, svars>>

(***************************************************************************)
(* Specifications                                                          *)
(***************************************************************************)
\* extract() calls on the shared extractor; the scorer is not used
ExtractNext ==
    \E c \in ExtractCalls : Extract(c) \/ CompletionReturns(c) \/ BackoffElapses(c)

ExtractInit == XInit /\ SInit /\ UInit

SpecExtract == ExtractInit /\ [][ExtractNext]_vars

\* one extract() call whose completions carry JSON objects with any of the
\* defects the schema checks for
ValidateNext ==
    \/ Extract("x1")
    \/ CompletionReturns("x1")
    \/ CompletionParsed("x1")
    \/ BackoffElapses("x1")

ValidateInit == XInit /\ SInit /\ UInit

SpecValidate == ValidateInit /\ [][ValidateNext]_vars

\* one caller at a time on the scorer
ScorerNext ==
    \/ AssessConfidenceCase("t1")
    \/ AssessFillCase("t1")
    \/ AssessValidationCase("t1")
    \/ AssessConsistencyCase("t1")
    \/ AssessAgain("t1")
    \/ AssessStep("t1")

Init == XInit /\ SInit /\ UInit

Spec == Init /\ [][ScorerNext]_vars

\* two threads calling assess_quality on the shared scorer
ConcurrentNext == \E t \in Threads : AssessShared(t) \/ AssessStep(t)

ConcurrentInit == XInit /\ SInit /\ UInit

SpecConcurrent == ConcurrentInit /\ [][ConcurrentNext]_vars

\* extract() calls on the shared extractor that their callers may cancel
CancelNext ==
    \E c \in ExtractCalls :
        Extract(c) \/ CompletionReturns(c) \/ BackoffElapses(c) \/ Cancel(c)

CancelInit == XInit /\ SInit /\ UInit

SpecCancel == CancelInit /\ [][CancelNext]_vars

\* requests to the two upload endpoints, one at a time
UploadNext ==
    \/ UploadLeaseDocument
    \/ UploadMultipleDocuments
    \/ ProcessNextFile
    \/ BatchReturn

UploadInit == XInit /\ SInit /\ UInit

SpecUpload == UploadInit /\ [][UploadNext]_vars

\* extract() calls whose awaits come back: the client answers or raises (its
\* request timeout surfaces as an OpenAIError), and asyncio.sleep(delay)
\* wakes the coroutine once the delay is over
FairInit == XInit /\ SInit /\ UInit

SpecExtractFair ==
    /\ FairInit
    /\ [][ExtractNext]_vars
    /\ \A c \in ExtractCalls :
          WF_vars(CompletionReturns(c)) /\ WF_vars(BackoffElapses(c))

(***************************************************************************)
(* Properties of extract()                                                 *)
(***************************************************************************)
\* every completion the call has received so far raised OpenAIError
AllApiErrors(c) ==
    \A i \in 1..Len(responses[c]) : responses[c][i] = "api_error"

Terminated(c) == xpc[c] \in {"returned", "raised"}

\* C1: when every completion fails with an API-level error, the call invokes
\* the collaborator exactly 3 times, sleeps exactly twice (1 second after the
\* first failure, 2 seconds after the second, nothing after the third), and
\* ends by raising at the third failure; it ends no earlier, and no call
\* ever makes a 4th invocation.
C1_RetryExhaustion ==
    \A c \in ExtractCalls :
        /\ invocations[c] <= 3
        /\ (AllApiErrors(c) /\ Len(responses[c]) >= 1) =>
             /\ Len(responses[c]) <= 3
             /\ Len(responses[c]) = 1 => (xpc[c] = "backoff" => delays[c] = <<1>>)
             /\ Len(responses[c]) = 2 => (xpc[c] = "backoff" => delays[c] = <<1, 2>>)
             /\ Len(responses[c]) < 3 => ~Terminated(c)
             /\ Len(responses[c]) = 3 =>
                  /\ xpc[c] = "raised"
                  /\ outcome[c].status = "raised"
                  /\ invocations[c] = 3
                  /\ delays[c] = <<1, 2>>

C1_Witness ==
    \E c \in ExtractCalls :
        /\ responses[c] = <<"api_error", "api_error", "api_error">>
        /\ xpc[c] = "raised"

\* C2: a response the schema rejects ends the call at once, on whichever
\* attempt it arrives: the call raises the validation error, sleeps no
\* backoff for it and invokes the collaborator no further.
C2_ValidationNotRetried ==
    \A c \in ExtractCalls :
        \A i \in 1..Len(responses[c]) :
            responses[c][i] = "schema_invalid" =>
                /\ i = Len(responses[c])
                /\ xpc[c] = "raised"
                /\ outcome[c].status = "raised"
                /\ outcome[c].exc = [type |-> "ExtractionError", cause |-> "ValidationError"]
                /\ invocations[c] = i
                /\ Len(delays[c]) = i - 1

C2_Witness ==
    \E c \in ExtractCalls :
        /\ Len(responses[c]) = 3
        /\ responses[c][3] = "schema_invalid"
        /\ xpc[c] = "raised"

\* C3: when the third attempt fails with a retryable error (OpenAIError or
\* unparseable JSON), the call raises ExtractionError wrapping that error;
\* the caller never receives the raw OpenAIError or JSONDecodeError.
C3_ExhaustionWrapped ==
    \A c \in ExtractCalls :
        (Len(responses[c]) = 3 /\ responses[c][3] \in {"api_error", "bad_json"}) =>
            /\ xpc[c] = "raised"
            /\ outcome[c].exc.type = "ExtractionError"
            /\ outcome[c].exc.cause = BodyRaises(responses[c][3]).type

(***************************************************************************)
(* Properties of assess_quality()                                          *)
(***************************************************************************)
Range(s) == {s[i] : i \in DOMAIN s}

RatEq(p, q) == p[1] * q[2] = q[1] * p[2]

\* the issues one record produces when it is assessed alone, in order
OwnIssues(ex, day) ==
    CalculateConfidenceScore(ex).found \o CalculateCompletenessScore(ex).found
      \o CalculateValidationScore(ex).found \o CalculateConsistencyScore(ex, day).found

\* the call has computed its validation sub-score
Validated(t) == spc[t] \in {"consistency", "summary", "report", "done", "raised"}

\* C4: with two threads inside assess_quality on the shared scorer, every
\* returned report lists, in validation_errors and in warnings, only messages
\* of issues its own record produces.
C4_OwnIssuesOnly ==
    \A t \in Threads :
        report[t].status = "returned" =>
            LET own == OwnIssues(extraction[t], today[t])
            IN  /\ Range(report[t].metrics.validation_errors)
                     \subseteq Range(MessagesOf(own, "error"))
                /\ Range(report[t].metrics.warnings)
                     \subseteq Range(MessagesOf(own, "warning"))

\* C5: assess_quality never raises for a record the schema accepts: no call
\* ends with QualityMetrics rejecting the scores.
C5_NeverRaises ==
    \A t \in Threads : spc[t] # "raised" /\ report[t].status # "raised"

\* C6: the overall_score of every returned report is
\* confidence*0.30 + completeness*0.25 + validation*0.25 + consistency*0.20,
\* with confidence the report's confidence_score times 100.
C6_WeightedSum ==
    \A t \in Threads :
        report[t].status = "returned" =>
            LET m == report[t].metrics
                confidence == RatMul(m.confidence_score, RatInt(100))
            IN  RatEq(m.overall_score,
                      RatAdd(RatAdd(RatMul(confidence, Rat(30, 100)),
                                    RatMul(m.completeness_score, Rat(25, 100))),
                             RatAdd(RatMul(m.validation_score, Rat(25, 100)),
                                    RatMul(m.consistency_score, Rat(20, 100)))))

C6_Witness ==
    \E t \in Threads :
        /\ report[t].status = "returned"
        /\ ~RatEq(RatMul(report[t].metrics.confidence_score, RatInt(100)),
                  report[t].metrics.consistency_score)
        /\ ~RatEq(report[t].metrics.completeness_score, report[t].metrics.validation_score)
        /\ RatLt(report[t].metrics.validation_score, RatInt(100))

\* "filled", in the words of the completeness rule: a string that is not
\* blank after trimming, a non-empty sequence, a number above zero, or any
\* other value that is present
FilledAsStated(ex, field) ==
    LET v == GetAttrPath(ex, field)
    IN  /\ ~IsNone(v)
        /\ CASE field \in {"address.street", "address.house_number", "address.zip_code",
                            "address.city", "landlord_name", "landlord_address",
                            "notice_period"} ->
                    \E i \in 1..Len(Val(v)) : Val(v)[i] \notin Whitespace
             [] field \in {"tenants", "special_clauses", "utilities_included"} ->
                    Val(v) # <<>>
             [] field \in {"warm_rent", "cold_rent", "deposit_amount", "square_meters",
                            "number_of_rooms", "parking_rent", "utilities_cost"} ->
                    Val(v) > 0
             [] OTHER -> TRUE

RequiredFilled(ex) ==
    Cardinality({i \in 1..9 : FilledAsStated(ex, REQUIRED_FIELDS[i])})

BonusFilled(ex) ==
    Cardinality({i \in 1..10 : FilledAsStated(ex, BONUS_FIELDS[i])})

\* C7: the completeness sub-score is (F/9*0.7 + Bf/10*0.3)*100 with F the
\* filled required fields and Bf the filled bonus fields; with all 9 required
\* fields and no bonus field filled it is exactly 70.
C7_Completeness ==
    \A t \in Threads :
        spc[t] \in {"validation", "consistency", "summary", "report", "done", "raised"} =>
            LET F == RequiredFilled(extraction[t])
                Bf == BonusFilled(extraction[t])
            IN  /\ RatEq(scores[t].completeness,
                         RatMul(RatAdd(RatMul(Rat(F, 9), Rat(7, 10)),
                                       RatMul(Rat(Bf, 10), Rat(3, 10))),
                                RatInt(100)))
                /\ (F = 9 /\ Bf = 0) => scores[t].completeness = RatInt(70)
                /\ report[t].status = "returned" =>
                       report[t].metrics.completeness_score = scores[t].completeness

C7_Witness ==
    \E t \in Threads :
        /\ report[t].status = "returned"
        /\ RequiredFilled(extraction[t]) = 8
        /\ BonusFilled(extraction[t]) = 3
        /\ extraction[t].parking_rent = Some(0)
        /\ extraction[t].landlord_address = Some(Blank)

\* C8: a record with warm_rent < cold_rent gets at least one error-severity
\* issue of category validation and a validation sub-score below 100; the
\* returned report's validation_errors is then non-empty.
C8_RentError ==
    \A t \in Threads :
        (Validated(t) /\ extraction[t].warm_rent < extraction[t].cold_rent) =>
            /\ \E i \in DOMAIN issues :
                  issues[i].severity = "error" /\ issues[i].category = "validation"
            /\ RatLt(scores[t].validation, RatInt(100))
            /\ report[t].status = "returned" =>
                  /\ report[t].metrics.validation_errors # <<>>
                  /\ RatLt(report[t].metrics.validation_score, RatInt(100))

C8_Witness ==
    \E t \in Threads :
        /\ report[t].status = "returned"
        /\ extraction[t].warm_rent < extraction[t].cold_rent

\* C9: the quality level derived during the assessment is the same label as
\* the quality_tier of the returned report, for every overall score.
C9_OneTierTable ==
    \A t \in Threads :
        report[t].status = "returned" =>
            scores[t].quality_level = QualityTier(report[t].metrics)

\* C10: every required field whose confidence value (address sub-fields read
\* the 'address' entry) is below 0.6 has a warning-severity issue of category
\* confidence recorded for it.
C10_LowConfidenceWarned ==
    \A t \in Threads :
        spc[t] \in {"completeness", "validation", "consistency", "summary", "report",
                    "done", "raised"} =>
            \A i \in 1..9 :
                LET field == REQUIRED_FIELDS[i]
                    key == FieldKey(field)
                    conf == extraction[t].confidence_scores
                IN  (key \in DOMAIN conf /\ RatLt(conf[key], Rat(6, 10))) =>
                        \E j \in DOMAIN issues :
                            /\ issues[j].severity = "warning"
                            /\ issues[j].category = "confidence"
                            /\ issues[j].field \in {field, key}

\* the call has computed its confidence sub-score
ConfidenceScored(t) ==
    spc[t] \in {"completeness", "validation", "consistency", "summary", "report",
                "done", "raised"}

\* the confidence-map keys the 9 required fields are read from
RequiredKeys ==
    {"tenants", "address", "warm_rent", "cold_rent", "contract_start_date",
     "rent_increase_type"}

EntryOrHalf(conf, k) == IF k \in DOMAIN conf THEN conf[k] ELSE Rat(1, 2)

\* the average over the 9 required fields, the address entry counted for
\* each of its four sub-fields, on the 0-100 scale
NineFieldAverage(conf) ==
    RatMul(RatDiv(RatSum(<<EntryOrHalf(conf, "tenants"),
                           RatMul(RatInt(4), EntryOrHalf(conf, "address")),
                           EntryOrHalf(conf, "warm_rent"),
                           EntryOrHalf(conf, "cold_rent"),
                           EntryOrHalf(conf, "contract_start_date"),
                           EntryOrHalf(conf, "rent_increase_type")>>),
                  RatInt(9)),
           RatInt(100))

WithoutEntry(conf, k) == [j \in DOMAIN conf \ {k} |-> conf[j]]

C13_EmptyConfidenceMap ==
    \A t \in Threads :
        (ConfidenceScored(t) /\ DOMAIN extraction[t].confidence_scores = {}) =>
            /\ scores[t].confidence = RatInt(50)
            /\ Cardinality({j \in DOMAIN issues : issues[j].category = "confidence"}) = 1
            /\ \A j \in DOMAIN issues :
                  issues[j].category = "confidence" =>
                      /\ issues[j].severity = "warning"
                      /\ issues[j].field = "confidence_scores"
            /\ report[t].status = "returned" =>
                  report[t].metrics.confidence_score = Rat(1, 2)

C13_Witness ==
    \E t \in Threads :
        /\ report[t].status = "returned"
        /\ DOMAIN extraction[t].confidence_scores = {}

\* the eight validation rules as the rule table states them: a rule on an
\* optional field applies when the field is present, whatever its value
StatedRule(applies, passes) == [applies |-> applies, passes |-> passes]

StatedValidationRules(ex) ==
    LET parking == IF IsNone(ex.parking_rent) THEN 0 ELSE Val(ex.parking_rent)
        expected == ex.warm_rent - ex.cold_rent - parking
    IN  <<StatedRule(TRUE, ex.warm_rent >= ex.cold_rent),
          StatedRule(~IsNone(ex.utilities_cost),
                     IF IsNone(ex.utilities_cost) THEN FALSE
                     ELSE RatLe(RatInt(Abs(Val(ex.utilities_cost) - expected)),
                                Rat(expected, 10))),
          StatedRule(~IsNone(ex.contract_end_date),
                     IF IsNone(ex.contract_end_date) THEN FALSE
                     ELSE Val(ex.contract_end_date) > ex.contract_start_date),
          StatedRule(TRUE, 100 <= ex.cold_rent /\ ex.cold_rent <= 10000),
          StatedRule(~IsNone(ex.deposit_amount),
                     IF IsNone(ex.deposit_amount) THEN FALSE
                     ELSE /\ 2 * ex.cold_rent <= Val(ex.deposit_amount)
                          /\ 10 * Val(ex.deposit_amount) <= 36 * ex.cold_rent),
          StatedRule(TRUE, Len(ex.tenants) >= 1),
          StatedRule(~IsNone(ex.number_of_rooms),
                     IF IsNone(ex.number_of_rooms) THEN FALSE
                     ELSE 5 <= Val(ex.number_of_rooms) /\ Val(ex.number_of_rooms) <= 100),
          StatedRule(~IsNone(ex.square_meters),
                     IF IsNone(ex.square_meters) THEN FALSE
                     ELSE 10 <= Val(ex.square_meters) /\ Val(ex.square_meters) <= 500)>>

\* C14: the validation sub-score is passed/applicable*100 with rules 1, 4
\* and 6 always applicable and rules 2, 3, 5, 7, 8 applicable exactly when
\* their optional field is present, a present value of 0 included.
C14_ApplicableWhenPresent ==
    \A t \in Threads :
        Validated(t) =>
            LET rules == StatedValidationRules(extraction[t])
            IN  RatEq(scores[t].validation,
                      RatMul(Rat(PassedOf(rules), TotalOf(rules)), RatInt(100)))

\* the fields the issues of rules 1 and 6 are recorded under
ErrorRuleFields == {"rent", "tenants"}

\* C15: each failed validation rule appends exactly one issue; the issue of
\* rule 1 (warm >= cold) or rule 6 (tenants) is error-severity, the issue of
\* any other rule (2, 3, 4, 5, 7, 8) is warning or info severity, never error.
C15_RuleSeverities ==
    \A t \in Threads :
        Validated(t) =>
            LET rules == ValidationRules(extraction[t])
                found == {j \in DOMAIN issues : issues[j].category = "validation"}
            IN  /\ Cardinality(found) = TotalOf(rules) - PassedOf(rules)
                /\ \A j \in found :
                      IF issues[j].field \in ErrorRuleFields
                      THEN issues[j].severity = "error"
                      ELSE issues[j].severity \in {"warning", "info"}

\* the call has computed its consistency sub-score
ConsistencyScored(t) == spc[t] \in {"summary", "report", "done", "raised"}

\* the consistency issues recorded under a field
ConsistencyIssuesFor(field) ==
    {j \in DOMAIN issues : issues[j].category = "consistency" /\ issues[j].field = field}

\* C16: a record of type 'fixed_step' whose schedule is absent or empty gets
\* a consistency issue for the schedule and a consistency sub-score below
\* 100; with a non-empty schedule no such issue is recorded.
C16_FixedStepSchedule ==
    \A t \in Threads :
        (ConsistencyScored(t) /\ extraction[t].rent_increase_type = "fixed_step") =>
            LET schedule == extraction[t].rent_increase_schedule
            IN  IF IsNone(schedule) \/ schedule = Some(<<>>)
                THEN /\ ConsistencyIssuesFor("rent_increase_schedule") # {}
                     /\ RatLt(scores[t].consistency, RatInt(100))
                ELSE ConsistencyIssuesFor("rent_increase_schedule") = {}

C16_Witness ==
    \E t \in Threads :
        /\ report[t].status = "returned"
        /\ extraction[t].rent_increase_type = "fixed_step"
        /\ extraction[t].rent_increase_schedule = Some(<<>>)

\* C17: the activity check passes exactly when is_active equals (no end
\* date, or end date not before today); every mismatch is recorded as a
\* warning-severity consistency issue, and a match records no issue.
C17_ActivityCheck ==
    \A t \in Threads :
        ConsistencyScored(t) =>
            LET ex == extraction[t]
                expected == IF IsNone(ex.contract_end_date) THEN TRUE
                            ELSE Val(ex.contract_end_date) >= today[t]
            IN  IF ex.is_active = expected
                THEN ConsistencyIssuesFor("is_active") = {}
                ELSE /\ Cardinality(ConsistencyIssuesFor("is_active")) = 1
                     /\ \A j \in ConsistencyIssuesFor("is_active") :
                           issues[j].severity = "warning"

\* the consistency checks with the postal-code check counted for the known
\* locale only
ChecksSkippingPostal(ex, day) ==
    [ConsistencyChecks(ex, day) EXCEPT ![4].applies = IsMunich(ex.address.city)]

\* C18: the consistency sub-score is passed/applicable*100 over the
\* applicable checks; for a city that matches no known locale the postal-code
\* check adds to neither count.
C18_PostalCheckSkipped ==
    \A t \in Threads :
        ConsistencyScored(t) =>
            RatEq(scores[t].consistency,
                  TallyScore(ChecksSkippingPostal(extraction[t], today[t])))

(***************************************************************************)
(* Properties of the schema validator                                      *)
(***************************************************************************)
\* the call's last completion parsed to a JSON object
HasCandidate(c) == ~IsNone(candidate[c])

\* the object carries both rents, the warm rent positive and below the cold
WarmBelowCold(raw) ==
    IF IsNone(raw.warm_rent) \/ IsNone(raw.cold_rent) THEN FALSE
    ELSE 0 < Val(raw.warm_rent) /\ Val(raw.warm_rent) < Val(raw.cold_rent)

HardGateDefect(raw) ==
    \/ IsNone(raw.tenants)
    \/ raw.tenants = Some(<<>>)
    \/ ~(/\ Len(raw.address.zip_code) = 5
         /\ \A i \in 1..Len(raw.address.zip_code) : raw.address.zip_code[i] \in Digits)
    \/ ~HouseNumberMatches(raw.address.house_number)
    \/ IsNone(raw.warm_rent)
    \/ (IF IsNone(raw.warm_rent) THEN FALSE ELSE Val(raw.warm_rent) <= 0)
    \/ IsNone(raw.cold_rent)
    \/ (IF IsNone(raw.cold_rent) THEN FALSE ELSE Val(raw.cold_rent) <= 0)
    \/ IsNone(raw.contract_start_date)
    \/ raw.rent_increase_type
           \notin {"index-linked", "percentage", "fixed_step", "none", "unknown"}

\* C20: the schema validator rejects every candidate with a missing or empty
\* tenant list, a postal code that is not exactly 5 digits, a malformed house
\* number, a missing or non-positive warm or cold rent, a missing start date
\* or a rent-increase type outside the enumerated set; extract never returns
\* such a candidate.
C20_HardGate ==
    \A c \in ExtractCalls :
        (HasCandidate(c) /\ HardGateDefect(Val(candidate[c]))) =>
            /\ xpc[c] = "raised"
            /\ outcome[c].status = "raised"
            /\ outcome[c].exc = [type |-> "ExtractionError", cause |-> "ValidationError"]

\* C21: every score assess_quality computes for a schema-valid record lies in
\* its range: the confidence, completeness, validation and consistency
\* sub-scores and the overall score in [0,100], and the confidence_score of a
\* returned report in [0,1].
C21_ScoresInRange ==
    \A t \in Threads :
        /\ InRange(scores[t].confidence, 0, 100)
        /\ InRange(scores[t].completeness, 0, 100)
        /\ InRange(scores[t].validation, 0, 100)
        /\ InRange(scores[t].consistency, 0, 100)
        /\ InRange(scores[t].overall, 0, 100)
        /\ report[t].status = "returned" =>
             InRange(report[t].metrics.confidence_score, 0, 1)

\* what assess_quality returns for the record on a freshly constructed
\* QualityScorer (self.issues = [] from __init__) on the given day
FreshReport(ex, day) ==
    LET own == OwnIssues(ex, day)
        confidence == CalculateConfidenceScore(ex).score
        completeness == CalculateCompletenessScore(ex).score
        validation == CalculateValidationScore(ex).score
        consistency == CalculateConsistencyScore(ex, day).score
        overall == OverallScore(confidence, completeness, validation, consistency)
        sc == [confidence |-> confidence, completeness |-> completeness,
               validation |-> validation, consistency |-> consistency,
               overall |-> overall, quality_level |-> DetermineQualityLevel(overall)]
        m == BuildMetrics(sc, MessagesOf(own, "error"), MessagesOf(own, "warning"))
    IN  IF MetricsValid(m) THEN [status |-> "returned", metrics |-> m]
        ELSE [status |-> "raised", metrics |-> NoMetrics]

\* the record only a call that follows an earlier call is given
LaterCallRecord ==
    ModelPostInit([BaseRecord EXCEPT !.address.street = Blank,
                                     !.rent_increase_type = "fixed_step"])

\* C22: with one caller at a time, whatever calls the instance has served
\* before, a call ends as a call on a freshly constructed QualityScorer ends
\* for the same record: the same report (scores and both message lists), so
\* no issue of an earlier call is in it.
C22_NoHiddenState ==
    \A t \in Threads :
        spc[t] \in {"done", "raised"} =>
            report[t] = FreshReport(extraction[t], today[t])

C22_Witness ==
    /\ spc["t1"] = "done"
    /\ extraction["t1"] = LaterCallRecord
    /\ report["t1"].status = "returned"
    /\ report["t1"].metrics.warnings # <<>>

(***************************************************************************)
(* More properties of extract()                                            *)
(***************************************************************************)
\* the completions that do not parse to a JSON object: unparseable text, and
\* absent content or JSON that is no object
Unparseable == {"bad_json", "not_object"}

\* C23: a response that cannot be parsed as a JSON object, arriving on
\* attempt 1 or 2, does not end the call: the call sleeps the backoff delay of
\* that attempt and then invokes the collaborator again; and when a later
\* attempt's response parses and passes the schema, the call returns that
\* response's record.
C23_UnparseableRetried ==
    \A c \in ExtractCalls :
        \A i \in 1..Len(responses[c]) :
            (responses[c][i] \in Unparseable /\ i < 3) =>
                /\ Len(delays[c]) >= i
                /\ delays[c][i] = ExponentialBackoff(i - 1)
                /\ IF i = Len(responses[c])
                   THEN xpc[c] \in {"backoff", "awaiting"}
                   ELSE invocations[c] > i
                /\ responses[c][Len(responses[c])] = "valid" =>
                     /\ xpc[c] = "returned"
                     /\ outcome[c].status = "result"
                     /\ HasCandidate(c)
                     /\ ConstructAccepts(Val(candidate[c]))

\* C24: a cancellation delivered while the call waits for the completion or
\* sleeps a backoff ends the call there: it returns no record, starts no
\* retry and invokes the collaborator no further, and a cancelled call never
\* moves again.
C24_CancelEnds ==
    [][\A c \in ExtractCalls :
         /\ Cancel(c) =>
              /\ xpc'[c] = "cancelled"
              /\ outcome'[c].status = "cancelled"
              /\ IsNone(candidate'[c])
              /\ invocations'[c] = invocations[c]
              /\ delays'[c] = delays[c]
         /\ xpc[c] = "cancelled" =>
              /\ xpc'[c] = "cancelled"
              /\ outcome'[c] = outcome[c]
              /\ invocations'[c] = invocations[c]
              /\ delays'[c] = delays[c]
              /\ candidate'[c] = candidate[c]]_vars

\* one call cancelled in its second backoff, the other while it waits for
\* its second completion
C24_Witness ==
    /\ xpc["x1"] = "cancelled"
    /\ Len(delays["x1"]) = 2
    /\ invocations["x1"] = 2
    /\ xpc["x2"] = "cancelled"
    /\ Len(responses["x2"]) = 1
    /\ invocations["x2"] = 2

\* C25: a call sleeping its backoff does not hold up the other calls on the
\* instance: whatever the other call is waiting for can happen while the
\* first stays in its backoff (it can start, its completion can arrive and
\* be returned, its own backoff can elapse); and each call counts its own
\* attempts: its counters follow from its own responses alone, and it raises
\* for exhaustion only after 3 responses of its own.
C25_NonBlockingBackoff ==
    \A c \in ExtractCalls : \A d \in ExtractCalls \ {c} :
        /\ xpc[c] = "backoff" =>
             /\ xpc[d] = "idle" => ENABLED (Extract(d) /\ xpc'[c] = "backoff")
             /\ xpc[d] = "awaiting" =>
                  ENABLED (CompletionReturns(d) /\ xpc'[d] = "returned"
                             /\ xpc'[c] = "backoff")
             /\ xpc[d] = "backoff" =>
                  ENABLED (BackoffElapses(d) /\ xpc'[c] = "backoff")
        /\ invocations[d] = Len(responses[d]) + (IF xpc[d] = "awaiting" THEN 1 ELSE 0)
        /\ attempt[d] = Len(delays[d]) - (IF xpc[d] = "backoff" THEN 1 ELSE 0)
        /\ (/\ xpc[d] = "raised"
            /\ responses[d][Len(responses[d])] \in {"api_error", "bad_json"}) =>
               Len(responses[d]) = 3

\* one call returns the result of its third attempt while the other sleeps
\* its second backoff
C25_Witness ==
    /\ xpc["x1"] = "backoff"
    /\ Len(delays["x1"]) = 2
    /\ xpc["x2"] = "returned"
    /\ outcome["x2"].status = "result"
    /\ Len(responses["x2"]) = 3

\* how a call stands with respect to its budget and its way of ending
BudgetKept(c) ==
    /\ invocations[c] <= 3
    /\ Len(responses[c]) <= 3
    /\ xpc[c] = "returned" =>
         /\ outcome[c].status = "result"
         /\ responses[c][Len(responses[c])] = "valid"
         /\ HasCandidate(c)
         /\ ConstructAccepts(Val(candidate[c]))
    /\ xpc[c] = "raised" => outcome[c].status = "raised"
    /\ outcome[c].status \in {"none", "result", "raised"}

\* C26: whatever the collaborator answers, attempt by attempt, a call makes
\* at most 3 invocations in all (API errors and unparseable responses count
\* against the same 3), it terminates, and it ends by returning a record
\* that passed the schema or by raising: never by returning nothing, never
\* by returning a record that was not validated.
C26_BoundedTermination ==
    /\ [](\A c \in ExtractCalls : BudgetKept(c))
    /\ \A c \in ExtractCalls : (xpc[c] = "awaiting") ~> Terminated(c)

\* a call that used its whole budget on both retryable kinds and then
\* returned
C26_Witness ==
    \E c \in ExtractCalls :
        /\ responses[c] = <<"api_error", "bad_json", "valid">>
        /\ invocations[c] = 3
        /\ xpc[c] = "returned"

(***************************************************************************)
(* Properties of the upload endpoints                                      *)
(***************************************************************************)
\* the file reaches process_upload and its text is empty or, trimmed,
\* shorter than 100 characters
ReachesWithUnusableText(file) ==
    /\ ValidateFileUpload(file) = NoExc
    /\ file.saves
    /\ TextUnusable(file.text)

\* neither ai_extractor.extract nor assess_quality was called for the file
NotAnalysed(file_index) ==
    \A i \in 1..Len(calls) :
        calls[i].file_index = file_index =>
            calls[i].service \notin {"extract", "assess_quality"}

\* the status process_upload failed with for every such file
UnusableTextStatus(status) ==
    /\ (upc = "responded" /\ response.endpoint = "/"
          /\ ReachesWithUnusableText(files[1])) =>
         /\ response.status = status
         /\ NotAnalysed(0)
    /\ upc = "batch" =>
         \A i \in 1..idx :
             ReachesWithUnusableText(files[i]) =>
                 /\ \E k \in 1..Len(errs) :
                      /\ errs[k].file_index = i - 1
                      /\ errs[k].status_code = Some(status)
                 /\ NotAnalysed(i - 1)

\* C27: when the text extracted from an uploaded PDF is empty or shorter
\* than 100 characters after trimming, process_upload fails with HTTP status
\* 422, and neither the AI extraction nor the quality assessment is invoked
\* for that file.
C27_UnusableTextIs422 == UnusableTextStatus(422)

(***************************************************************************)
(* More properties of assess_quality()                                     *)
(***************************************************************************)
\* the messages of the issues of one severity, in the order of the issues
Listed(iss, severity) ==
    LET chosen == SelectSeq(iss, LAMBDA i : i.severity = severity)
    IN  [k \in DOMAIN chosen |-> chosen[k].message]

\* the place of an issue's category in the order the sub-scores are computed
CategoryRank(category) ==
    CASE category = "confidence" -> 1
      [] category = "completeness" -> 2
      [] category = "validation" -> 3
      [] OTHER -> 4

\* the four conditions the code reports with info severity, as
\* <<condition, category, field>>
InfoCases(ex) ==
    {<<Truthy(ex.deposit_amount)
         /\ (Val(ex.deposit_amount) * 10 < ex.cold_rent * 20
               \/ Val(ex.deposit_amount) * 10 > ex.cold_rent * 36),
       "validation", "deposit_amount">>,
     <<IsMunich(ex.address.city)
         /\ ParseInt(ex.address.zip_code) \notin 80000..81999,
       "consistency", "address">>,
     <<Len(ex.tenants) > 0
         /\ (ex.name # Some(ex.tenants[1].first_name)
               \/ ex.surname # Some(ex.tenants[1].last_name)),
       "consistency", "name/surname">>,
     <<IsNone(ex.contract_end_date) /\ ~ex.is_active,
       "consistency", "is_active">>}

\* the sub-score of a category in the report
SubScore(m, category) ==
    IF category = "validation" THEN m.validation_score ELSE m.consistency_score

\* C28: in a returned report, each of the four info-severity conditions
\* (deposit outside the usual range, postal code outside Munich's range,
\* legacy name fields unlike the first tenant, unlimited contract marked
\* inactive) is recorded as one info issue and brings its sub-score below
\* 100; no info issue's message is in validation_errors or warnings; and the
\* two lists are exactly the messages of the error issues and of the warning
\* issues, in the order confidence, completeness, validation, consistency.
C28_InfoIssuesUnlisted ==
    \A t \in Threads :
        report[t].status = "returned" =>
            LET m == report[t].metrics
                info == {j \in DOMAIN issues : issues[j].severity = "info"}
            IN  /\ \A case \in InfoCases(extraction[t]) :
                      case[1] =>
                          /\ Cardinality({j \in info : /\ issues[j].category = case[2]
                                                       /\ issues[j].field = case[3]}) = 1
                          /\ RatLt(SubScore(m, case[2]), RatInt(100))
                /\ \A j \in info :
                      /\ issues[j].message \notin Range(m.validation_errors)
                      /\ issues[j].message \notin Range(m.warnings)
                      /\ RatLt(SubScore(m, issues[j].category), RatInt(100))
                /\ m.validation_errors = Listed(issues, "error")
                /\ m.warnings = Listed(issues, "warning")
                /\ \A i, j \in DOMAIN issues :
                      i < j => CategoryRank(issues[i].category)
                                  <= CategoryRank(issues[j].category)

\* a report for a record with three info-severity consistency issues and a
\* consistency warning
C28_Witness ==
    /\ report["t1"].status = "returned"
    /\ Cardinality({j \in DOMAIN issues : issues[j].severity = "info"}) = 3
    /\ \E j \in DOMAIN issues :
         /\ issues[j].severity = "warning"
         /\ issues[j].category = "consistency"
         /\ issues[j].message \in Range(report["t1"].metrics.warnings)

\* the entries of a list recorded for the file at the index
EntriesFor(list, file_index) == {k \in DOMAIN list : list[k].file_index = file_index}

\* the entries of a list are in the order of the files
InFileOrder(list) ==
    \A j, k \in DOMAIN list : j < k => list[j].file_index < list[k].file_index

\* C29: a batch of 0 files or of more than 3 files is answered with 400
\* before any file is processed; in a batch of 1 to 3 files the files are
\* processed one after the other, in order, whatever became of the earlier
\* ones: each processed file has exactly one entry, in results or in errors,
\* the call answers only after the last file, with 200, and its response has
\* successful + failed = total_files.
C29_BatchAccounting ==
    (upc \in {"batch", "responded"} /\ (upc = "responded" => response.endpoint = "/batch")) =>
        IF Len(files) = 0 \/ Len(files) > 3
        THEN /\ upc = "responded"
             /\ response.status = 400
             /\ idx = 0
             /\ calls = <<>>
             /\ results = <<>>
             /\ errs = <<>>
        ELSE /\ idx <= Len(files)
             /\ \A i \in 1..Len(files) :
                   Cardinality(EntriesFor(results, i - 1))
                     + Cardinality(EntriesFor(errs, i - 1)) = (IF i <= idx THEN 1 ELSE 0)
             /\ \A i \in 1..idx :
                   EntriesFor(results, i - 1) # {} <=> FileRun(files[i]).exc = NoExc
             /\ InFileOrder(results)
             /\ InFileOrder(errs)
             /\ \A j, k \in DOMAIN calls :
                   j < k => calls[j].file_index <= calls[k].file_index
             /\ upc = "responded" =>
                  /\ response.status = 200
                  /\ idx = Len(files)
                  /\ response.body.total_files = Len(files)
                  /\ response.body.successful + response.body.failed
                       = response.body.total_files
                  /\ response.body.successful = Len(results)
                  /\ response.body.failed = Len(errs)

\* a batch of three whose first file failed and whose last file succeeded
C29_Witness ==
    /\ upc = "responded"
    /\ response.endpoint = "/batch"
    /\ response.status = 200
    /\ response.body.total_files = 3
    /\ EntriesFor(errs, 0) # {}
    /\ EntriesFor(results, 2) # {}

\* the messages that do not come from the activity check
NotOfActivityCheck(messages) ==
    SelectSeq(messages, LAMBDA msg : msg[2] # "is_active")

\* what a report shows apart from the activity check: the three sub-scores
\* computed without the date, and the messages of the other rules and checks
ApartFromActivity(r) ==
    [status |-> r.status,
     confidence_score |-> r.metrics.confidence_score,
     completeness_score |-> r.metrics.completeness_score,
     validation_score |-> r.metrics.validation_score,
     validation_errors |-> NotOfActivityCheck(r.metrics.validation_errors),
     warnings |-> NotOfActivityCheck(r.metrics.warnings)]

\* C30: besides the record, a call's outcome depends on the current date
\* alone, and on it only through the activity check of a record that has an
\* end date: a finished call's outcome is the outcome of any call on an
\* equal record on the same day, and for a record without end date on any
\* day; on another day only the activity check's part of the report can
\* differ.
C30_DateOnlyInput ==
    \A t \in Threads :
        spc[t] \in {"done", "raised"} =>
            \A day \in Days :
                LET other == FreshReport(extraction[t], day)
                IN  /\ (day = today[t] \/ IsNone(extraction[t].contract_end_date)) =>
                          other = report[t]
                    /\ (other.status = "returned" /\ report[t].status = "returned") =>
                          ApartFromActivity(other) = ApartFromActivity(report[t])

\* a record without end date, marked inactive, assessed on the later day
C30_Witness ==
    /\ spc["t1"] = "done"
    /\ IsNone(extraction["t1"].contract_end_date)
    /\ ~extraction["t1"].is_active
    /\ today["t1"] = 300
    /\ report["t1"].status = "returned"

====
